---- MODULE Spec2Model ----
(***************************************************************************)
(* State model of the browser shell: the BrowserState object (tab store,   *)
(* address bar, loading flags, conversations and the AI invocation         *)
(* pipeline) and the AIService streaming contract it drives.               *)
(*                                                                         *)
(* Conventions.                                                            *)
(*  - A JavaScript object is a record; Object.assign is record merge, so   *)
(*    a field an object never received is absent from its DOMAIN.          *)
(*  - A JavaScript string on which the code computes (urls, the address    *)
(*    bar value, chat input, message content, conversation titles) is a    *)
(*    sequence of one-character strings.  Tab titles, favicons, roles and  *)
(*    event names are only copied and compared, and are TLA+ strings.      *)
(*  - Identifiers are the integers generateId hands out, in order; NULL    *)
(*    (0) is the JavaScript null of an id pointer.                         *)
(*  - Array positions are 1-based; NotFound (0) is findIndex's -1.         *)
(*  - Every operation is an operator from the object's state s ("this")    *)
(*    to the state it leaves behind; an action applies one operation to    *)
(*    the current state with inputs drawn from small sets.  The state an   *)
(*    operation returns carries, in its field emitted, the events the      *)
(*    operation emitted, in order.                                         *)
(*  - Timestamps (Date.now()) and metadata are not modelled.               *)
(***************************************************************************)
EXTENDS Integers, Sequences, FiniteSets, TLC

VARIABLES
  tabs,           \* BrowserState.tabs
  activeTabId,    \* BrowserState.activeTabId
  addressBar,     \* BrowserState.addressBar
  navigation,     \* BrowserState.navigation
  ui,             \* BrowserState.ui
  chat,           \* BrowserState.chat
  conversations,  \* BrowserState.conversations
  ntp,            \* BrowserState.ntp: favorites, enabledWidgets
  storage,        \* localStorage: browser_tabs, browser_conversations,
                  \* browser_ntp
  apiKey,         \* AIService.config.apiKey
  streams,        \* the chatStream calls in flight, one per invokeAI
  webview,        \* UIBindings.elements.webviewFrame: the page it shows and
                  \* the page load in progress
  widgetRegistry, \* BrowserState._widgetRegistry: widget id -> definition
  nextId          \* the next identifier generateId returns

vars == <<tabs, activeTabId, addressBar, navigation, ui, chat, conversations,
          ntp, storage, apiKey, streams, webview, widgetRegistry, nextId>>

-----------------------------------------------------------------------------
(* Bounds of the model *)

MaxTabs == 3        \* addTab / duplicateTab are cut off at this many tabs
MaxIds == 4         \* tab operations stop drawing identifiers after this one
MaxNavTabs == 2     \* tabs in the address bar specification
MaxConvIds == 4     \* identifiers in the conversation store specification
MaxChatIds == 5     \* identifiers in the chat pipeline specification
MaxChunks == 2      \* text fragments a stream delivers at most
MaxOverlapIds == 5    \* identifiers drawn while prompts overlap
MaxFairChunks == 1    \* fragments per stream in the fair specification
MaxViewTabs == 2      \* tabs of the browser window specification
MaxUrlLen == 3        \* characters typed after the scheme of an address
MaxStartupTabs == 2   \* tabs of the startup specification
MaxStartupIds == 3    \* identifiers drawn before the default favorites
MaxFavorites == 3   \* favorites added at most

-----------------------------------------------------------------------------
(* Values *)

NULL == 0
NotFound == 0
NoFavicon == "null"
NoBlob == [absent |-> TRUE]
CorruptBlob == [corrupt |-> TRUE]

Str_empty == <<>>
Str_url == <<"h", "t", "t", "p", "s", ":", "/", "/", "a", ".", "b">>
Str_url2 == <<"h", "t", "t", "p", ":", "/", "/", "c", ".", "d">>
Str_host == <<"a", ".", "b">>
Str_host2 == <<"c", ".", "d">>
Str_query == <<"q", " ", "r">>
Str_blank == <<" ", " ">>

Has(o, k) == k \in DOMAIN o
NoOptions == [k \in {} |-> TRUE]

\* Object.assign(target, updates)
Assign(target, updates) ==
  [k \in DOMAIN target \cup DOMAIN updates |->
     IF k \in DOMAIN updates THEN updates[k] ELSE target[k]]

\* Array.prototype.findIndex on the id field, 1-based
FindIndex(seq, id) ==
  IF \E i \in 1..Len(seq) : seq[i].id = id
  THEN CHOOSE i \in 1..Len(seq) :
         /\ seq[i].id = id
         /\ \A j \in 1..(i - 1) : seq[j].id # id
  ELSE NotFound

\* seq.splice(i, 1) for a 1-based position i
RemoveAt(seq, i) ==
  [j \in 1..(Len(seq) - 1) |-> IF j < i THEN seq[j] ELSE seq[j + 1]]

\* seq.splice(start0, 0, x) for a 0-based start0: a negative start counts
\* from the end, and the start is clamped to [0, length]
SpliceInsert(seq, start0, x) ==
  LET n == Len(seq)
      rel == IF start0 < 0
             THEN (IF n + start0 < 0 THEN 0 ELSE n + start0)
             ELSE (IF start0 > n THEN n ELSE start0)
  IN  [j \in 1..(n + 1) |->
         IF j <= rel THEN seq[j]
         ELSE IF j = rel + 1 THEN x
         ELSE seq[j - 1]]

Max(a, b) == IF a >= b THEN a ELSE b

-----------------------------------------------------------------------------
(* The object's state as one record *)

State ==
  [tabs |-> tabs, activeTabId |-> activeTabId, addressBar |-> addressBar,
   navigation |-> navigation, ui |-> ui, chat |-> chat,
   conversations |-> conversations, ntp |-> ntp, storage |-> storage,
   apiKey |-> apiKey, streams |-> streams, webview |-> webview,
   widgetRegistry |-> widgetRegistry, nextId |-> nextId,
   emitted |-> <<>>, observed |-> <<>>, returned |-> NULL, loaded |-> <<>>]

-----------------------------------------------------------------------------
(* Tab schema and persistence *)

createTab(options, freshId) ==
  [id |-> IF Has(options, "id") THEN options.id ELSE freshId,
   title |-> IF Has(options, "title") /\ options.title # ""
             THEN options.title ELSE "New tab",
   url |-> IF Has(options, "url") THEN options.url ELSE Str_empty,
   favicon |-> IF Has(options, "favicon") THEN options.favicon ELSE NoFavicon,
   isPinned |-> IF Has(options, "isPinned") THEN options.isPinned ELSE FALSE,
   isLoading |-> FALSE,
   canGoBack |-> FALSE,
   canGoForward |-> FALSE]

getTab(s, tabId) ==
  LET i == FindIndex(s.tabs, tabId)
  IN  IF i = NotFound THEN NULL ELSE s.tabs[i]

tabSnapshot(s) ==
  [activeTabId |-> s.activeTabId,
   tabs |-> [i \in 1..Len(s.tabs) |->
               [id |-> s.tabs[i].id, title |-> s.tabs[i].title,
                url |-> s.tabs[i].url, favicon |-> s.tabs[i].favicon]]]

\* what a listener called at this moment finds when it reads the state and
\* re-reads the persisted blobs
\* JSON.stringify(this.conversations), as the text parses back
conversationSnapshot(s) == [conversations |-> s.conversations]

Observation(s) ==
  [memoryTabs |-> tabSnapshot(s),
   persistedTabs |-> s.storage.browser_tabs,
   memoryConversations |-> conversationSnapshot(s),
   persistedConversations |-> s.storage.browser_conversations]

\* emit calls the listeners synchronously, with the state as it is now
emit(s, event) ==
  [s EXCEPT !.emitted = Append(@, [event |-> event]),
            !.observed = Append(@, Observation(s))]

emitData(s, event, data) ==
  [s EXCEPT !.emitted = Append(@, [event |-> event, data |-> data]),
            !.observed = Append(@, Observation(s))]

saveTabs(s) ==
  [s EXCEPT !.storage.browser_tabs = tabSnapshot(s)]

-----------------------------------------------------------------------------
(* Tab operations *)

syncAddressBar_unlessEditing(s, tab) ==
  IF s.addressBar.isEditing THEN s
  ELSE [s EXCEPT !.addressBar.value = tab.url]

\* "Sync address bar with tab URL"
syncAddressBar(s, tab) ==
  [s EXCEPT !.addressBar.value = tab.url, !.addressBar.isEditing = FALSE]

setActiveTab_ignored(s, tabId) == s

setActiveTab(s, tabId) ==
  LET i == FindIndex(s.tabs, tabId)
  IN  IF i = NotFound THEN s
      ELSE LET tab == s.tabs[i]
               s0 == syncAddressBar([s EXCEPT !.activeTabId = tabId], tab)
               s1 == [s0 EXCEPT !.navigation.canGoBack = tab.canGoBack,
                                !.navigation.canGoForward = tab.canGoForward]
           IN  emit(emitData(saveTabs(s1), "activeTabChanged", tab),
                    "stateChanged")

addTab(s, options) ==
  LET tab == createTab(options, s.nextId)
      s1 == [s EXCEPT !.nextId = IF Has(options, "id") THEN @ ELSE @ + 1,
                      !.tabs = Append(@, tab)]
      s2 == saveTabs(setActiveTab(s1, tab.id))
  IN  emit(emitData(s2, "tabAdded", tab), "stateChanged")

replacementIndex_first(index) == 1

\* Math.max(0, index - 1) for the 1-based position of the removed tab:
\* "Prefer the tab to the left, or the first tab"
replacementIndex(index) == Max(1, index - 1)

clearActiveTab_keepsId(s) == [s EXCEPT !.addressBar.value = Str_empty]

\* removeTab when the last tab was removed
clearActiveTab(s) ==
  [s EXCEPT !.activeTabId = NULL, !.addressBar.value = Str_empty]

removeTab(s, tabId) ==
  LET index == FindIndex(s.tabs, tabId)
  IN  IF index = NotFound THEN s
      ELSE LET tab == s.tabs[index]
               s1 == [s EXCEPT !.tabs = RemoveAt(@, index)]
               s2 == IF s1.activeTabId = tabId
                     THEN IF Len(s1.tabs) > 0
                          THEN setActiveTab(s1,
                                 s1.tabs[replacementIndex(index)].id)
                          ELSE clearActiveTab(s1)
                     ELSE s1
           IN  emit(emitData(saveTabs(s2), "tabRemoved", tab), "stateChanged")

\* tabsToClose.forEach: each tab to close is looked up by id and spliced out
RECURSIVE CloseEach(_, _)
CloseEach(ts, toClose) ==
  IF toClose = <<>> THEN ts
  ELSE LET index == FindIndex(ts, Head(toClose).id)
       IN  CloseEach(IF index # NotFound THEN RemoveAt(ts, index) ELSE ts,
                     Tail(toClose))

closeOtherTabs(s, keepTabId) ==
  LET tabsToClose == SelectSeq(s.tabs, LAMBDA t : t.id # keepTabId)
      s1 == [s EXCEPT !.tabs = CloseEach(@, tabsToClose)]
  IN  emit(saveTabs(setActiveTab(s1, keepTabId)), "stateChanged")

activeTabClosed_never(s) == FALSE

\* !this.tabs.find(t => t.id === this.activeTabId)
activeTabClosed(s) == FindIndex(s.tabs, s.activeTabId) = NotFound

closeTabsToRight(s, tabId) ==
  LET index == FindIndex(s.tabs, tabId)
  IN  IF index = NotFound THEN s
      ELSE LET s1 == [s EXCEPT !.tabs = SubSeq(@, 1, index)]
               s2 == IF activeTabClosed(s1)
                     THEN setActiveTab(s1, tabId)
                     ELSE s1
           IN  emit(saveTabs(s2), "stateChanged")

insertAfter_atEnd(ts, index, tab) == Append(ts, tab)

\* this.tabs.splice(index + 1, 0, newTab), index being 1-based here
insertAfter(ts, index, tab) == SpliceInsert(ts, index, tab)

duplicateTab(s, tabId) ==
  LET index == FindIndex(s.tabs, tabId)
  IN  IF index = NotFound THEN s
      ELSE LET sourceTab == s.tabs[index]
               newTab == createTab([title |-> sourceTab.title,
                                    url |-> sourceTab.url,
                                    favicon |-> sourceTab.favicon], s.nextId)
               s1 == [s EXCEPT !.nextId = @ + 1,
                               !.tabs = insertAfter(@, index, newTab)]
               s2 == saveTabs(setActiveTab(s1, newTab.id))
           IN  emit(emitData(s2, "tabAdded", newTab), "stateChanged")

LastPinnedIndex_none(ts) == NotFound

\* tabs.reduce((acc, t, i) => t.isPinned ? i : acc, -1), 1-based
LastPinnedIndex(ts) ==
  IF \E i \in 1..Len(ts) : ts[i].isPinned
  THEN CHOOSE i \in 1..Len(ts) :
         /\ ts[i].isPinned
         /\ \A j \in (i + 1)..Len(ts) : ~ts[j].isPinned
  ELSE NotFound

togglePinTab(s, tabId) ==
  LET index == FindIndex(s.tabs, tabId)
  IN  IF index = NotFound THEN s
      ELSE LET tab == [s.tabs[index] EXCEPT !.isPinned = ~@]
               flipped == [s.tabs EXCEPT ![index] = tab]
               moved == IF tab.isPinned
                        THEN LET rest == RemoveAt(flipped, index)
                             IN  SpliceInsert(rest, LastPinnedIndex(rest), tab)
                        ELSE flipped
           IN  emit(saveTabs([s EXCEPT !.tabs = moved]), "stateChanged")

crossesPinBoundary_never(draggedTab, targetTab) == FALSE

\* "Don't allow moving pinned to unpinned section or vice versa"
crossesPinBoundary(draggedTab, targetTab) ==
  draggedTab.isPinned # targetTab.isPinned

reorderTab(s, draggedTabId, targetTabId) ==
  LET draggedIndex == FindIndex(s.tabs, draggedTabId)
      targetIndex == FindIndex(s.tabs, targetTabId)
  IN  IF draggedIndex = NotFound \/ targetIndex = NotFound THEN s
      ELSE IF crossesPinBoundary(s.tabs[draggedIndex], s.tabs[targetIndex])
      THEN s
      ELSE LET removed == s.tabs[draggedIndex]
               rest == RemoveAt(s.tabs, draggedIndex)
               newTargetIndex == FindIndex(rest, targetTabId)
           IN  emit(saveTabs([s EXCEPT !.tabs =
                       SpliceInsert(rest, newTargetIndex - 1, removed)]),
                    "stateChanged")

addressBarFollows_whileEditing(s, updates) == Has(updates, "url")

\* 'url' in updates && !this.addressBar.isEditing
addressBarFollows(s, updates) ==
  Has(updates, "url") /\ ~s.addressBar.isEditing

updateTab(s, tabId, updates) ==
  LET index == FindIndex(s.tabs, tabId)
  IN  IF index = NotFound THEN s
      ELSE LET tab == Assign(s.tabs[index], updates)
               s1 == [s EXCEPT !.tabs[index] = tab]
               s2 == IF tabId = s1.activeTabId
                     THEN [s1 EXCEPT
                             !.navigation.canGoBack =
                               IF Has(updates, "canGoBack")
                               THEN updates.canGoBack ELSE @,
                             !.navigation.canGoForward =
                               IF Has(updates, "canGoForward")
                               THEN updates.canGoForward ELSE @,
                             !.addressBar.value =
                               IF addressBarFollows(s1, updates)
                               THEN updates.url ELSE @]
                     ELSE s1
               s3 == IF Has(updates, "url") \/ Has(updates, "title")
                        \/ Has(updates, "favicon")
                     THEN saveTabs(s2) ELSE s2
           IN  emit(emitData(s3, "tabUpdated", tab), "stateChanged")

mirrorsLoading_always(s, tabId) == TRUE

\* "Update UI loading indicator if this is the active tab"
mirrorsLoading(s, tabId) == tabId = s.activeTabId

setTabLoading(s, tabId, isLoading) ==
  LET index == FindIndex(s.tabs, tabId)
  IN  IF index = NotFound THEN s
      ELSE LET s1 == [s EXCEPT !.tabs[index].isLoading = isLoading]
               s2 == IF mirrorsLoading(s1, tabId)
                     THEN [s1 EXCEPT !.ui.isLoading = isLoading,
                                     !.ui.loadingTabId =
                                       IF isLoading THEN tabId ELSE NULL]
                     ELSE s1
           IN  emit(emitData(s2, "loadingStateChanged",
                             [tabId |-> tabId, isLoading |-> isLoading]),
                    "stateChanged")

-----------------------------------------------------------------------------
(* Address bar operations *)

Whitespace == {" ", "\t", "\n"}

RECURSIVE TrimStart(_)
TrimStart(str) ==
  IF str # <<>> /\ Head(str) \in Whitespace THEN TrimStart(Tail(str)) ELSE str

RECURSIVE TrimEnd(_)
TrimEnd(str) ==
  IF str # <<>> /\ str[Len(str)] \in Whitespace
  THEN TrimEnd(SubSeq(str, 1, Len(str) - 1))
  ELSE str

\* String.prototype.trim
Trim(str) == TrimEnd(TrimStart(str))

\* String.prototype.includes for a one-character needle
Includes(str, c) == \E i \in 1..Len(str) : str[i] = c

StartsWith(str, prefix) ==
  /\ Len(str) >= Len(prefix)
  /\ SubSeq(str, 1, Len(prefix)) = prefix

ToLower(c) ==
  CASE c = "H" -> "h" [] c = "T" -> "t" [] c = "P" -> "p" [] c = "S" -> "s"
    [] OTHER -> c

\* trimmed.match(/^https?:\/\//i)
MatchesHttpScheme(str) ==
  LET lower == [i \in 1..Len(str) |-> ToLower(str[i])]
  IN  \/ StartsWith(lower, <<"h", "t", "t", "p", ":", "/", "/">>)
      \/ StartsWith(lower, <<"h", "t", "t", "p", "s", ":", "/", "/">>)

normalizeUrl(input) ==
  LET trimmed == Trim(input)
  IN  IF trimmed = <<>> THEN Str_empty
      ELSE IF Includes(trimmed, ".") /\ ~Includes(trimmed, " ")
      THEN IF ~MatchesHttpScheme(trimmed)
           THEN <<"h", "t", "t", "p", "s", ":", "/", "/">> \o trimmed
           ELSE trimmed
      ELSE trimmed

setAddressBarValue(s, value) ==
  LET s1 == [s EXCEPT !.addressBar.value = value,
                      !.addressBar.isEditing = TRUE]
  IN  emitData(s1, "addressBarChanged", s1.addressBar)

committedUpdates_none(url) == NoOptions

\* this.updateTab(tab.id, { url })
committedUpdates(url) == [url |-> url]

\* the url it returns is kept in the result's returned field
commitAddressBar(s) ==
  LET url == normalizeUrl(s.addressBar.value)
      s1 == [s EXCEPT !.addressBar.value = url,
                      !.addressBar.isEditing = FALSE]
      s2 == IF FindIndex(s1.tabs, s1.activeTabId) # NotFound
            THEN updateTab(s1, s1.activeTabId, committedUpdates(url))
            ELSE s1
      s3 == emit(emitData(s2, "addressBarCommitted", url), "stateChanged")
  IN  [s3 EXCEPT !.returned = url]

cancelAddressBarEdit(s) ==
  LET i == FindIndex(s.tabs, s.activeTabId)
      s1 == [s EXCEPT !.addressBar.value =
                        IF i # NotFound THEN s.tabs[i].url ELSE Str_empty,
                      !.addressBar.isEditing = FALSE]
  IN  emitData(s1, "addressBarChanged", s1.addressBar)

-----------------------------------------------------------------------------
(* Conversation schema and persistence *)

TitleLimit == 50

Str_newConversation ==
  <<"N", "e", "w", " ", "c", "o", "n", "v", "e", "r", "s", "a", "t", "i", "o",
    "n">>
Str_hi == <<"h", "i">>
Str_long == [i \in 1..(TitleLimit + 1) |-> "x"]
\* stands for the text invokeAI writes when no API key is set
Str_notConfigured == <<"A", "I", " ", "i", "s", " ", "n", "o", "t", " ", "c",
                       "o", "n", "f", "i", "g", "u", "r", "e", "d">>
\* `Error: ${error.message}`
ErrorText(message) == <<"E", "r", "r", "o", "r", ":", " ">> \o message
Str_failed == <<"f", "a", "i", "l", "e", "d">>

\* String.prototype.slice(0, n)
Slice0(str, n) == SubSeq(str, 1, IF Len(str) < n THEN Len(str) ELSE n)

createConversation(options, freshId) ==
  [id |-> IF Has(options, "id") THEN options.id ELSE freshId,
   title |-> IF Has(options, "title") /\ options.title # <<>>
             THEN options.title ELSE Str_newConversation,
   messages |-> IF Has(options, "messages") THEN options.messages ELSE <<>>,
   originatingContext |-> IF Has(options, "originatingContext")
                          THEN options.originatingContext ELSE "global"]

createMessage(options, freshId) ==
  [id |-> IF Has(options, "id") THEN options.id ELSE freshId,
   role |-> IF Has(options, "role") THEN options.role ELSE "user",
   content |-> IF Has(options, "content") THEN options.content ELSE Str_empty]

saveConversations(s) ==
  [s EXCEPT !.storage.browser_conversations = conversationSnapshot(s)]

-----------------------------------------------------------------------------
(* Conversation operations *)

addConversation(s, options) ==
  LET conversation == createConversation(options, s.nextId)
      s1 == [s EXCEPT !.nextId = IF Has(options, "id") THEN @ ELSE @ + 1,
                      !.conversations = Append(@, conversation),
                      !.chat.activeConversationId = conversation.id]
  IN  emitData(emitData(saveConversations(s1), "conversationAdded",
                        conversation),
               "activeConversationChanged", conversation)

setActiveConversation_unchecked(s, conversationId) ==
  emitData([s EXCEPT !.chat.activeConversationId = conversationId],
           "activeConversationChanged", conversationId)

setActiveConversation(s, conversationId) ==
  LET i == FindIndex(s.conversations, conversationId)
  IN  IF i = NotFound THEN s
      ELSE emitData([s EXCEPT !.chat.activeConversationId = conversationId],
                    "activeConversationChanged", s.conversations[i])

addMessage(s, conversationId, messageOptions) ==
  LET i == FindIndex(s.conversations, conversationId)
  IN  IF i = NotFound THEN s
      ELSE LET message == createMessage(messageOptions, s.nextId)
               c0 == s.conversations[i]
               c1 == [c0 EXCEPT !.messages = Append(@, message)]
               c2 == IF c1.title = Str_newConversation /\ message.role = "user"
                     THEN [c1 EXCEPT !.title =
                             Slice0(message.content, TitleLimit)
                               \o (IF Len(message.content) > TitleLimit
                                   THEN <<".", ".", ".">> ELSE <<>>)]
                     ELSE c1
               s1 == [s EXCEPT !.nextId = IF Has(messageOptions, "id")
                                          THEN @ ELSE @ + 1,
                               !.conversations[i] = c2]
           IN  emitData(emitData(saveConversations(s1), "messageAdded",
                                 [conversationId |-> conversationId,
                                  message |-> message]),
                        "conversationUpdated", c2)

updateMessage(s, conversationId, messageId, updates) ==
  LET i == FindIndex(s.conversations, conversationId)
  IN  IF i = NotFound THEN s
      ELSE LET j == FindIndex(s.conversations[i].messages, messageId)
           IN  IF j = NotFound THEN s
               ELSE LET message == Assign(s.conversations[i].messages[j],
                                          updates)
                        s1 == [s EXCEPT !.conversations[i].messages[j] =
                                          message]
                    IN  emitData(emitData(saveConversations(s1),
                                          "messageUpdated",
                                          [conversationId |-> conversationId,
                                           messageId |-> messageId,
                                           message |-> message]),
                                 "conversationUpdated", s1.conversations[i])

\* the ntpUpdated payload (getNtpData()) is a read of the state and is not
\* recorded with the event
deleteConversation(s, conversationId) ==
  LET index == FindIndex(s.conversations, conversationId)
  IN  IF index = NotFound THEN s
      ELSE LET conversation == s.conversations[index]
               s1 == [s EXCEPT !.conversations = RemoveAt(@, index)]
               s2 == IF s1.chat.activeConversationId = conversationId
                     THEN emitData([s1 EXCEPT !.chat.activeConversationId =
                                                NULL],
                                   "activeConversationChanged", NULL)
                     ELSE s1
           IN  emit(emitData(saveConversations(s2), "conversationDeleted",
                             conversation),
                    "ntpUpdated")

-----------------------------------------------------------------------------
(* Chat input and the AI invocation pipeline *)

setChatInput(s, value) ==
  emitData([s EXCEPT !.chat.inputValue = value], "chatInputChanged", value)

getTabContext(s) ==
  [activeTabId |-> s.activeTabId,
   tabs |-> [i \in 1..Len(s.tabs) |->
               [id |-> s.tabs[i].id, title |-> s.tabs[i].title,
                url |-> s.tabs[i].url,
                isActive |-> s.tabs[i].id = s.activeTabId]]]

isConfigured_always(s) == TRUE

\* AIService.isConfigured
isConfigured(s) == s.apiKey # ""

\* AIService.buildMessages: the system message (its text is built from the
\* system prompt, the page context and the open tabs, kept here as the parts
\* it is built from) followed by the role and content of every message given
buildMessages(conversationMessages, pageContext, tabContext) ==
  <<[role |-> "system", page |-> pageContext,
     openTabs |-> Len(tabContext.tabs)]>>
  \o [i \in 1..Len(conversationMessages) |->
        [role |-> conversationMessages[i].role,
         content |-> conversationMessages[i].content]]

\* the callbacks invokeAI hands to AIService.chatStream
onChunk(s, conversationId, messageId, fullContent) ==
  updateMessage(s, conversationId, messageId,
                [content |-> fullContent, isStreaming |-> TRUE])

completionUpdates_stillStreaming(fullContent) ==
  [content |-> fullContent, isStreaming |-> TRUE]

\* the updates onComplete writes into the placeholder
completionUpdates(fullContent) ==
  [content |-> fullContent, isStreaming |-> FALSE]

completionLoading_kept(s) == s.chat

\* this.chat.isLoading = false, in onComplete
completionLoading(s) == Assign(s.chat, [isLoading |-> FALSE])

onComplete(s, conversationId, messageId, fullContent) ==
  LET s1 == updateMessage(s, conversationId, messageId,
                          completionUpdates(fullContent))
  IN  emitData([s1 EXCEPT !.chat = completionLoading(s1)],
               "chatLoadingChanged", FALSE)

errorUpdates_keepsContent(errorMessage) ==
  [isStreaming |-> FALSE, isError |-> TRUE]

\* the updates onError (and invokeAI's own catch) writes into the placeholder
errorUpdates(errorMessage) ==
  [content |-> ErrorText(errorMessage), isStreaming |-> FALSE,
   isError |-> TRUE]

onError_keepsLoading(s, conversationId, messageId, errorMessage) ==
  updateMessage(s, conversationId, messageId, errorUpdates(errorMessage))

onError(s, conversationId, messageId, errorMessage) ==
  LET s1 == updateMessage(s, conversationId, messageId,
                          errorUpdates(errorMessage))
  IN  emitData([s1 EXCEPT !.chat = Assign(@, [isLoading |-> FALSE])],
               "chatLoadingChanged", FALSE)

\* invokeAI up to its first suspension: the await of the provider's fetch
\* inside chatStream.  The request is then in flight as a stream.
invokeAI(s, conversationId, pageContext, tabContext) ==
  LET i == FindIndex(s.conversations, conversationId)
  IN  IF i = NotFound THEN s
      ELSE IF ~isConfigured(s)
      THEN addMessage(s, conversationId,
                      [role |-> "assistant", content |-> Str_notConfigured])
      ELSE LET s1 == emitData([s EXCEPT !.chat =
                                          Assign(@, [isLoading |-> TRUE])],
                              "chatLoadingChanged", TRUE)
               messageId == s1.nextId
               s2 == addMessage(s1, conversationId,
                                [role |-> "assistant", content |-> Str_empty,
                                 isStreaming |-> TRUE])
               history == s2.conversations[i].messages
               messages == buildMessages(SubSeq(history, 1, Len(history) - 1),
                                         pageContext, tabContext)
           IN  [s2 EXCEPT !.streams = @ \cup
                  {[conversationId |-> conversationId,
                    messageId |-> messageId, request |-> messages,
                    fullContent |-> Str_empty, phase |-> "open"]}]

submittedValue_untrimmed(s) == s.chat.inputValue

\* const value = this.chat.inputValue.trim()
submittedValue(s) == Trim(s.chat.inputValue)

submitChat(s, pageContext) ==
  LET value == submittedValue(s)
  IN  IF value = <<>> THEN s
      ELSE LET a == FindIndex(s.tabs, s.activeTabId)
               hasPage == /\ a # NotFound
                          /\ s.tabs[a].url # <<>>
                          /\ StartsWith(s.tabs[a].url, <<"h", "t", "t", "p">>)
               originatingContext == IF hasPage THEN "page" ELSE "global"
               c == FindIndex(s.conversations, s.chat.activeConversationId)
               s1 == IF c = NotFound
                     THEN addConversation(s,
                            [originatingContext |-> originatingContext,
                             pageUrl |-> IF hasPage THEN s.tabs[a].url
                                         ELSE NULL])
                     ELSE s
               conversationId == s1.chat.activeConversationId
               s2 == addMessage(s1, conversationId,
                                [role |-> "user", content |-> value])
               tabContext == getTabContext(s2)
               s3 == emitData(s2, "aiInvocation",
                              [conversationId |-> conversationId,
                               prompt |-> value, pageContext |-> pageContext,
                               tabContext |-> tabContext])
               s4 == invokeAI(s3, conversationId, pageContext, tabContext)
           IN  emitData([s4 EXCEPT !.chat.inputValue = Str_empty],
                        "chatInputChanged", Str_empty)

\* AIService.chatStreamOpenAI / chatStreamAnthropic after the response
\* arrived: a line carrying a non-empty text fragment extends fullContent
\* and is handed to onChunk with the cumulative text
streamChunk(s, st, fragment) ==
  LET fullContent == st.fullContent \o fragment
      s1 == onChunk(s, st.conversationId, st.messageId, fullContent)
  IN  [s1 EXCEPT !.streams =
         (@ \ {st}) \cup {[st EXCEPT !.fullContent = fullContent]}]

\* the reader reports done: onComplete(fullContent)
streamComplete(s, st) ==
  LET s1 == onComplete(s, st.conversationId, st.messageId, st.fullContent)
  IN  [s1 EXCEPT !.streams = (@ \ {st}) \cup {[st EXCEPT !.phase = "done"]}]

\* fetch rejects, the response is not ok, or a read fails: chatStream's
\* catch hands the error to onError
streamError(s, st, errorMessage) ==
  LET s1 == onError(s, st.conversationId, st.messageId, errorMessage)
  IN  [s1 EXCEPT !.streams = (@ \ {st}) \cup {[st EXCEPT !.phase = "failed"]}]

\* AIService.setApiKey
setApiKey(s, key) == [s EXCEPT !.apiKey = key]

-----------------------------------------------------------------------------
(* Favorites.  The ntpUpdated payload (getNtpData()) is a read of the state *)
(* and is not recorded with the event.                                      *)

saveNtpData(s) ==
  [s EXCEPT !.storage.browser_ntp =
     [favorites |-> s.ntp.favorites, enabledWidgets |-> s.ntp.enabledWidgets]]

addFavorite(s, favorite) ==
  LET fav == [id |-> s.nextId,
              title |-> IF Has(favorite, "title") /\ favorite.title # ""
                        THEN favorite.title ELSE "Untitled",
              url |-> IF Has(favorite, "url") THEN favorite.url ELSE Str_empty,
              favicon |-> IF Has(favorite, "favicon") THEN favorite.favicon
                          ELSE NoFavicon]
      s1 == [s EXCEPT !.nextId = @ + 1, !.ntp.favorites = Append(@, fav)]
  IN  emit(saveNtpData(s1), "ntpUpdated")

updateFavorite(s, favoriteId, updates) ==
  LET i == FindIndex(s.ntp.favorites, favoriteId)
  IN  IF i = NotFound THEN s
      ELSE LET fav == s.ntp.favorites[i]
               fav1 == [fav EXCEPT
                          !.title = IF Has(updates, "title")
                                    THEN updates.title ELSE @,
                          !.url = IF Has(updates, "url") THEN updates.url ELSE @,
                          !.favicon = IF Has(updates, "favicon")
                                      THEN updates.favicon ELSE @]
           IN  emit(saveNtpData([s EXCEPT !.ntp.favorites[i] = fav1]),
                    "ntpUpdated")

removeFavorite(s, favoriteId) ==
  LET index == FindIndex(s.ntp.favorites, favoriteId)
  IN  IF index = NotFound THEN s
      ELSE emit(saveNtpData([s EXCEPT !.ntp.favorites = RemoveAt(@, index)]),
                "ntpUpdated")

favoriteTargetIndex_beforeRemoval(favorites, rest, targetId) ==
  FindIndex(favorites, targetId)

\* the target is looked up again after the dragged favorite was removed
favoriteTargetIndex(favorites, rest, targetId) == FindIndex(rest, targetId)

reorderFavorite(s, draggedId, targetId) ==
  LET draggedIndex == FindIndex(s.ntp.favorites, draggedId)
      targetIndex == FindIndex(s.ntp.favorites, targetId)
  IN  IF draggedIndex = NotFound \/ targetIndex = NotFound THEN s
      ELSE LET removed == s.ntp.favorites[draggedIndex]
               rest == RemoveAt(s.ntp.favorites, draggedIndex)
               newTargetIndex == favoriteTargetIndex(s.ntp.favorites, rest,
                                                     targetId)
           IN  emit(saveNtpData([s EXCEPT !.ntp.favorites =
                       SpliceInsert(rest, newTargetIndex - 1, removed)]),
                    "ntpUpdated")

-----------------------------------------------------------------------------
(* Widget registry *)

\* _widgetRegistry: {}
NoWidgets == [id \in {} |-> [id |-> "", title |-> "", hasRender |-> FALSE]]

\* what _widgetRegistry[id] yields for an id without registration
undefined == [id |-> "", title |-> "", hasRender |-> FALSE]

registerWidget(s, widget) ==
  IF widget.id = "" \/ widget.title = "" \/ ~widget.hasRender THEN s
  ELSE emit([s EXCEPT !.widgetRegistry =
               [id \in DOMAIN @ \cup {widget.id} |->
                  IF id = widget.id THEN widget ELSE @[id]]],
            "widgetRegistered")

lookupWidget(registry, id) ==
  IF id \in DOMAIN registry THEN registry[id] ELSE undefined

\* .filter(Boolean): every definition is an object, hence kept; undefined
\* is dropped
filterBoolean_keepsAll(widgets) == widgets

filterBoolean(widgets) == SelectSeq(widgets, LAMBDA w : w # undefined)

getEnabledWidgets(s) ==
  filterBoolean([k \in 1..Len(s.ntp.enabledWidgets) |->
                   lookupWidget(s.widgetRegistry, s.ntp.enabledWidgets[k])])

includes(seq, x) == \E k \in 1..Len(seq) : seq[k] = x

indexOf(seq, x) ==
  IF includes(seq, x)
  THEN CHOOSE k \in 1..Len(seq) :
         seq[k] = x /\ \A j \in 1..(k - 1) : seq[j] # x
  ELSE NotFound

enableWidget(s, widgetId) ==
  IF widgetId \notin DOMAIN s.widgetRegistry THEN s
  ELSE IF includes(s.ntp.enabledWidgets, widgetId) THEN s
  ELSE emit(saveNtpData([s EXCEPT !.ntp.enabledWidgets =
                           Append(@, widgetId)]),
            "ntpUpdated")

disableWidget(s, widgetId) ==
  LET index == indexOf(s.ntp.enabledWidgets, widgetId)
  IN  IF index = NotFound THEN s
      ELSE emit(saveNtpData([s EXCEPT !.ntp.enabledWidgets =
                               RemoveAt(@, index)]),
                "ntpUpdated")

-----------------------------------------------------------------------------
(* Startup: init and the restoration of the persisted blobs *)

DefaultEnabledWidgets == <<"notes", "weather">>

\* the entries of getDefaultFavorites, each of which draws an identifier
DefaultFavoriteSites ==
  <<
    [title |-> "Google", favicon |-> "google",
     url |-> <<"h", "t", "t", "p", "s", ":", "/", "/", "g", "o", "o", "g",
               "l", "e", ".", "c", "o", "m">>],
    [title |-> "GitHub", favicon |-> "github",
     url |-> <<"h", "t", "t", "p", "s", ":", "/", "/", "g", "i", "t", "h",
               "u", "b", ".", "c", "o", "m">>],
    [title |-> "YouTube", favicon |-> "youtube",
     url |-> <<"h", "t", "t", "p", "s", ":", "/", "/", "y", "o", "u", "t",
               "u", "b", "e", ".", "c", "o", "m">>],
    [title |-> "Twitter", favicon |-> "twitter",
     url |-> <<"h", "t", "t", "p", "s", ":", "/", "/", "t", "w", "i", "t",
               "t", "e", "r", ".", "c", "o", "m">>],
    [title |-> "Reddit", favicon |-> "reddit",
     url |-> <<"h", "t", "t", "p", "s", ":", "/", "/", "r", "e", "d", "d",
               "i", "t", ".", "c", "o", "m">>],
    [title |-> "Wikipedia", favicon |-> "wikipedia",
     url |-> <<"h", "t", "t", "p", "s", ":", "/", "/", "w", "i", "k", "i",
               "p", "e", "d", "i", "a", ".", "o", "r", "g">>],
    [title |-> "Amazon", favicon |-> "amazon",
     url |-> <<"h", "t", "t", "p", "s", ":", "/", "/", "a", "m", "a", "z",
               "o", "n", ".", "c", "o", "m">>],
    [title |-> "Netflix", favicon |-> "netflix",
     url |-> <<"h", "t", "t", "p", "s", ":", "/", "/", "n", "e", "t", "f",
               "l", "i", "x", ".", "c", "o", "m">>],
    [title |-> "LinkedIn", favicon |-> "linkedin",
     url |-> <<"h", "t", "t", "p", "s", ":", "/", "/", "l", "i", "n", "k",
               "e", "d", "i", "n", ".", "c", "o", "m">>],
    [title |-> "Spotify", favicon |-> "spotify",
     url |-> <<"h", "t", "t", "p", "s", ":", "/", "/", "s", "p", "o", "t",
               "i", "f", "y", ".", "c", "o", "m">>],
    [title |-> "Facebook", favicon |-> "facebook",
     url |-> <<"h", "t", "t", "p", "s", ":", "/", "/", "f", "a", "c", "e",
               "b", "o", "o", "k", ".", "c", "o", "m">>],
    [title |-> "Instagram", favicon |-> "instagram",
     url |-> <<"h", "t", "t", "p", "s", ":", "/", "/", "i", "n", "s", "t",
               "a", "g", "r", "a", "m", ".", "c", "o", "m">>]
  >>

getDefaultFavorites(s) ==
  [k \in 1..Len(DefaultFavoriteSites) |->
     [id |-> s.nextId + k - 1, title |-> DefaultFavoriteSites[k].title,
      url |-> DefaultFavoriteSites[k].url,
      favicon |-> DefaultFavoriteSites[k].favicon]]

DefaultWidgets ==
  <<[id |-> "notes", title |-> "Notes", hasRender |-> TRUE],
    [id |-> "weather", title |-> "Weather", hasRender |-> TRUE],
    [id |-> "clock", title |-> "Clock", hasRender |-> TRUE],
    [id |-> "quicklinks", title |-> "Quick Links", hasRender |-> TRUE]>>

RECURSIVE registerEach(_, _, _)
registerEach(s, widgets, k) ==
  IF k > Len(widgets) THEN s
  ELSE registerEach(registerWidget(s, widgets[k]), widgets, k + 1)

registerDefaultWidgets(s) == registerEach(s, DefaultWidgets, 1)

\* localStorage.getItem yields null for a missing key; JSON.parse throws on
\* a corrupt text, which the catch of each load answers
loadTabs(s) ==
  LET data == s.storage.browser_tabs
  IN  IF Has(data, "absent") THEN s
      ELSE IF Has(data, "corrupt")
      THEN [s EXCEPT !.tabs = <<>>, !.activeTabId = NULL]
      ELSE IF Len(data.tabs) = 0 THEN s
      ELSE [s EXCEPT
              !.tabs = [i \in 1..Len(data.tabs) |->
                          createTab([id |-> data.tabs[i].id,
                                     title |-> data.tabs[i].title,
                                     url |-> data.tabs[i].url,
                                     favicon |-> data.tabs[i].favicon],
                                    s.nextId)],
              !.activeTabId = IF data.activeTabId # NULL
                              THEN data.activeTabId ELSE data.tabs[1].id]

loadConversations(s) ==
  LET data == s.storage.browser_conversations
  IN  IF Has(data, "absent") \/ Has(data, "corrupt")
      THEN [s EXCEPT !.conversations = <<>>]
      ELSE [s EXCEPT !.conversations = data.conversations]

defaultNtp_none(s) == s

\* the fallback of loadNtpData: the default favorites and enabled widgets
defaultNtp(s) ==
  [s EXCEPT !.ntp.favorites = getDefaultFavorites(s),
            !.ntp.enabledWidgets = DefaultEnabledWidgets,
            !.nextId = @ + Len(DefaultFavoriteSites)]

loadNtpData(s) ==
  LET data == s.storage.browser_ntp
  IN  IF Has(data, "absent") THEN saveNtpData(defaultNtp(s))
      ELSE IF Has(data, "corrupt") THEN defaultNtp(s)
      ELSE [s EXCEPT !.ntp.favorites = data.favorites,
                     !.ntp.enabledWidgets = data.enabledWidgets]

\* BrowserState.init: the chat record is replaced by one without isLoading
init(s) ==
  LET s0 == [s EXCEPT
               !.tabs = <<>>, !.activeTabId = NULL,
               !.addressBar = [value |-> Str_empty, isFocused |-> FALSE,
                               isEditing |-> FALSE],
               !.navigation = [canGoBack |-> FALSE, canGoForward |-> FALSE],
               !.ui = [isLoading |-> FALSE, loadingTabId |-> NULL],
               !.chat = [inputValue |-> Str_empty,
                         activeConversationId |-> NULL,
                         isLoading |-> FALSE]]
  IN  emit(loadNtpData(loadConversations(loadTabs(
             registerDefaultWidgets(s0)))),
           "initialized")

-----------------------------------------------------------------------------
(* The view layer (UIBindings) around the one webview element.  The        *)
(* listeners it subscribes to the state's events write no field of the     *)
(* state; what they do to the webview is applied to an operation's result  *)
(* by Deliver.  The Electron build is modelled (isElectron is true).       *)

NoLoad == [phase |-> "idle"]

\* webview.loadURL(url).  The load remembers the tab it was issued for; the
\* code keeps no such record, the field only says whose page load it is.
\* The result's loaded field lists the urls handed to loadURL.
loadURL(s, url, tabId) ==
  [s EXCEPT !.webview.load = [phase |-> "requested", tabId |-> tabId,
                              url |-> url],
            !.loaded = Append(@, url)]

\* tab.url && tab.url.startsWith('http')
HasHttpPrefix(url) == url # Str_empty /\ StartsWith(url, <<"h", "t", "t", "p">>)

\* the activeTabChanged listener; webview.getURL() is the page shown
onActiveTabChanged(s, tab) ==
  IF HasHttpPrefix(tab.url) /\ s.webview.url # tab.url
  THEN loadURL(s, tab.url, tab.id)
  ELSE s

\* the listeners called for the events of result r, in emission order; the
\* other listeners only render
RECURSIVE DeliverFrom(_, _)
DeliverFrom(r, i) ==
  IF i > Len(r.emitted) THEN r
  ELSE DeliverFrom(IF r.emitted[i].event = "activeTabChanged"
                   THEN onActiveTabChanged(r, r.emitted[i].data)
                   ELSE r,
                   i + 1)

Deliver(r) == DeliverFrom(r, 1)

\* UIBindings.navigateToUrl with a non-empty url
navigateToUrl(s, url) ==
  LET normalizedUrl == normalizeUrl(url)
      a == FindIndex(s.tabs, s.activeTabId)
      tabId == IF a = NotFound THEN s.nextId ELSE s.activeTabId
      s1 == IF a = NotFound
            THEN addTab(s, [url |-> normalizedUrl, title |-> "Loading..."])
            ELSE updateTab(s, tabId,
                           [url |-> normalizedUrl, title |-> "Loading..."])
      s2 == [s1 EXCEPT !.addressBar.value = normalizedUrl,
                       !.addressBar.isEditing = FALSE]
      s3 == Deliver(setTabLoading(s2, tabId, TRUE))
  IN  IF HasHttpPrefix(normalizedUrl)
      THEN loadURL(s3, normalizedUrl, tabId)
      ELSE s3

\* UIBindings.updateNavigationState: history is what webview.canGoBack()
\* and webview.canGoForward() answer
updateNavigationState(s, history) ==
  [s EXCEPT !.navigation.canGoBack = history.canGoBack,
            !.navigation.canGoForward = history.canGoForward]

\* the did-start-loading listener
onDidStartLoading(s) ==
  IF FindIndex(s.tabs, s.activeTabId) # NotFound
  THEN setTabLoading(s, s.activeTabId, TRUE)
  ELSE s

\* the did-stop-loading listener
onDidStopLoading(s, history) ==
  updateNavigationState(
    IF FindIndex(s.tabs, s.activeTabId) # NotFound
    THEN setTabLoading(s, s.activeTabId, FALSE)
    ELSE s,
    history)

\* UIBindings.onWebviewNavigate, the did-navigate listener
onWebviewNavigate(s, url, history) ==
  IF FindIndex(s.tabs, s.activeTabId) # NotFound
  THEN LET s1 == updateTab(s, s.activeTabId, [url |-> url])
           s2 == emit([s1 EXCEPT !.addressBar.value = url],
                      "addressBarChanged")
       IN  updateNavigationState(s2, history)
  ELSE s

\* the page-title-updated listener
onPageTitleUpdated(s, title) ==
  IF FindIndex(s.tabs, s.activeTabId) # NotFound
  THEN updateTab(s, s.activeTabId, [title |-> title])
  ELSE s

\* the did-fail-load listener, for an error code other than -3 and -1
onDidFailLoad(s) ==
  IF FindIndex(s.tabs, s.activeTabId) # NotFound
  THEN setTabLoading(s, s.activeTabId, FALSE)
  ELSE s

\* UIBindings.handleKeyboardShortcut for the new-tab and close-tab keys;
\* modifier is metaKey on a Mac and ctrlKey elsewhere
handleKeyboardShortcut(s, e, isMac) ==
  LET modifier == IF isMac THEN e.metaKey ELSE e.ctrlKey
  IN  IF modifier /\ e.key = "t" THEN addTab(s, NoOptions)
      ELSE IF modifier /\ e.key = "w"
      THEN IF FindIndex(s.tabs, s.activeTabId) # NotFound
           THEN removeTab(s, s.activeTabId)
           ELSE s
      ELSE s

\* the keydown listener of initKeyboardShortcuts for the same two keys
appKeydown(s, e) ==
  LET s1 == IF (e.metaKey \/ e.ctrlKey) /\ e.key = "t"
            THEN addTab(s, NoOptions)
            ELSE s
  IN  IF (e.metaKey \/ e.ctrlKey) /\ e.key = "w"
      THEN IF FindIndex(s1.tabs, s1.activeTabId) # NotFound /\ Len(s1.tabs) > 1
           THEN removeTab(s1, s1.activeTabId)
           ELSE s1
      ELSE s1

\* one keydown event on the document: its listeners run in the order of
\* their registration, UIBindings.init before initKeyboardShortcuts
keydown(s, e, isMac) ==
  Deliver(appKeydown(Deliver(handleKeyboardShortcut(s, e, isMac)), e))

-----------------------------------------------------------------------------
(* Initial state: the BrowserState and AIService object literals *)

\* the BrowserState object literal evaluated afresh when the page is loaded
\* again; localStorage and the provider key survive
Reloaded(s) ==
  [s EXCEPT !.conversations = <<>>,
            !.ntp = [favorites |-> <<>>,
                     enabledWidgets |-> DefaultEnabledWidgets],
            !.streams = {},
            !.webview = [url |-> Str_empty, load |-> NoLoad],
            !.widgetRegistry = NoWidgets]

Init ==
  /\ tabs = <<>>
  /\ activeTabId = NULL
  /\ addressBar = [value |-> Str_empty, isFocused |-> FALSE,
                   isEditing |-> FALSE]
  /\ navigation = [canGoBack |-> FALSE, canGoForward |-> FALSE]
  /\ ui = [isLoading |-> FALSE, loadingTabId |-> NULL]
  /\ chat = [inputValue |-> Str_empty, activeConversationId |-> NULL,
             isLoading |-> FALSE]
  /\ conversations = <<>>
  /\ ntp = [favorites |-> <<>>, enabledWidgets |-> <<"notes", "weather">>]
  /\ storage = [browser_tabs |-> NoBlob, browser_conversations |-> NoBlob,
                browser_ntp |-> NoBlob]
  /\ apiKey = ""
  /\ streams = {}
  /\ webview = [url |-> Str_empty, load |-> NoLoad]
  /\ widgetRegistry = NoWidgets
  /\ nextId = 1

\* the state an operation left behind becomes the current state
Apply(r) ==
  /\ tabs' = r.tabs
  /\ activeTabId' = r.activeTabId
  /\ addressBar' = r.addressBar
  /\ navigation' = r.navigation
  /\ ui' = r.ui
  /\ chat' = r.chat
  /\ conversations' = r.conversations
  /\ ntp' = r.ntp
  /\ storage' = r.storage
  /\ apiKey' = r.apiKey
  /\ streams' = r.streams
  /\ webview' = r.webview
  /\ widgetRegistry' = r.widgetRegistry
  /\ nextId' = r.nextId

-----------------------------------------------------------------------------
(* Inputs *)

\* an id argument: every identifier handed out so far (whether or not its
\* entity still exists) and one that was never handed out
IdInputs == 1..nextId

\* the options the callers of addTab pass: none, or a title and a url
AddTabOptions == {NoOptions, [title |-> "Example", url |-> Str_url]}

TabUpdates == {[url |-> Str_url2], [canGoBack |-> TRUE]}

AddressBarInputs == {Str_host, Str_query, Str_blank}

ChatInputs == {Str_blank, Str_hi}

MessageContents == {Str_hi, Str_newConversation, Str_long}

\* the updates argument of updateMessage, which Object.assign copies field
\* by field whatever its keys: what the streaming callbacks pass, and a
\* caller's patch of another field
MessageUpdates ==
  {[content |-> Str_hi, isStreaming |-> TRUE],
   [content |-> Str_hi, isStreaming |-> FALSE],
   [role |-> "user"], [role |-> "assistant"]}

NoPageContext == [absent |-> TRUE]
PageContexts == {NoPageContext, [restricted |-> TRUE]}

Fragments == {<<"a">>, <<"b">>}

-----------------------------------------------------------------------------
(* Actions: tab store, loading state, address bar *)

AddTab(optionSet, maxTabs, maxIds) ==
  \E options \in optionSet :
    /\ Len(tabs) < maxTabs /\ nextId <= maxIds
    /\ Apply(addTab(State, options))

RemoveTab ==
  \E id \in IdInputs : Apply(removeTab(State, id))

CloseOtherTabs ==
  \E id \in IdInputs : Apply(closeOtherTabs(State, id))

CloseTabsToRight ==
  \E id \in IdInputs : Apply(closeTabsToRight(State, id))

DuplicateTab ==
  \E id \in IdInputs :
    /\ FindIndex(tabs, id) # NotFound => Len(tabs) < MaxTabs /\ nextId <= MaxIds
    /\ Apply(duplicateTab(State, id))

TogglePinTab ==
  \E id \in IdInputs : Apply(togglePinTab(State, id))

ReorderTab ==
  \E draggedId \in IdInputs, targetId \in IdInputs :
    Apply(reorderTab(State, draggedId, targetId))

SetActiveTab ==
  \E id \in IdInputs : Apply(setActiveTab(State, id))

UpdateTab ==
  \E id \in IdInputs, updates \in TabUpdates :
    Apply(updateTab(State, id, updates))

SetTabLoading ==
  \E id \in IdInputs, isLoading \in BOOLEAN :
    Apply(setTabLoading(State, id, isLoading))

\* what can be typed or pasted into the address input: optional leading
\* blank, optional scheme in either case or a damaged one, then any text over
\* a letter, the dot, the space and the tab
UrlAlphabet == {"a", ".", " ", "\t"}

UrlSchemes ==
  {<<>>, <<"h", "t", "t", "p", ":", "/", "/">>,
   <<"H", "T", "T", "P", "S", ":", "/", "/">>,
   <<"h", "t", "t", "p", "s", ":", "/">>}

UrlInputs ==
  {pad \o scheme \o body :
     pad \in {<<>>, <<" ">>}, scheme \in UrlSchemes,
     body \in UNION {[1..k -> UrlAlphabet] : k \in 0..MaxUrlLen}}

TypeUrl ==
  \E value \in UrlInputs : Apply(setAddressBarValue(State, value))

SetAddressBarValue ==
  \E value \in AddressBarInputs : Apply(setAddressBarValue(State, value))

CommitAddressBar == Apply(commitAddressBar(State))

CancelAddressBarEdit == Apply(cancelAddressBarEdit(State))

-----------------------------------------------------------------------------
(* Actions: conversations, chat, streams *)

AddConversation(maxIds) ==
  /\ nextId <= maxIds
  /\ Apply(addConversation(State, NoOptions))

SetActiveConversation ==
  \E id \in IdInputs : Apply(setActiveConversation(State, id))

DeleteConversation ==
  \E id \in IdInputs : Apply(deleteConversation(State, id))

AddMessage(maxIds) ==
  \E id \in IdInputs, role \in {"user", "assistant"},
     content \in MessageContents :
    /\ FindIndex(conversations, id) # NotFound => nextId <= maxIds
    /\ Apply(addMessage(State, id, [role |-> role, content |-> content]))

UpdateMessage ==
  \E id \in IdInputs, messageId \in IdInputs :
    Apply(updateMessage(State, id, messageId, [content |-> Str_hi]))

SetChatInput ==
  \E value \in ChatInputs : Apply(setChatInput(State, value))

\* a submission draws up to three identifiers: conversation, user message
\* and placeholder
SubmitChat ==
  \E pageContext \in PageContexts :
    /\ submittedValue(State) # <<>> => nextId + 2 <= MaxChatIds
    /\ Apply(submitChat(State, pageContext))

\* a prompt submitted from the chat input, also while an earlier invocation
\* is still streaming: nothing in submitChat waits for chat.isLoading.  It
\* draws a conversation identifier when none is active, and two for the user
\* message and the reply
SubmitPrompt ==
  \E pageContext \in PageContexts :
    /\ submittedValue(State) # <<>> =>
         nextId + (IF FindIndex(conversations, chat.activeConversationId)
                        = NotFound THEN 2 ELSE 1) <= MaxOverlapIds
    /\ Apply(submitChat(State, pageContext))

\* the provider's stream feeding the placeholder messageId ends: the reader
\* reports done (chatStreamOpenAI runs on to onComplete), or the request or
\* a read fails (chatStream's catch).  These are the steps StreamComplete
\* and StreamError take for that stream.
StreamEnds(messageId) ==
  \E st \in streams, phase \in {"done", "failed"} :
    /\ st.messageId = messageId
    /\ st.phase = "open"
    /\ streams' = (streams \ {st}) \cup {[st EXCEPT !.phase = phase]}

SetApiKey ==
  \E key \in {"", "sk-key"} : Apply(setApiKey(State, key))

StreamChunk ==
  \E st \in streams, fragment \in Fragments :
    /\ st.phase = "open"
    /\ Len(st.fullContent) < MaxChunks
    /\ Apply(streamChunk(State, st, fragment))

StreamChunkWithin(maxChunks) ==
  \E st \in streams, fragment \in Fragments :
    /\ st.phase = "open"
    /\ Len(st.fullContent) < maxChunks
    /\ Apply(streamChunk(State, st, fragment))

StreamComplete ==
  \E st \in streams :
    /\ st.phase = "open"
    /\ Apply(streamComplete(State, st))

StreamError ==
  \E st \in streams :
    /\ st.phase = "open"
    /\ Apply(streamError(State, st, Str_failed))

-----------------------------------------------------------------------------
(* Actions: the view layer and the reports of the webview *)

\* what the webview answers for canGoBack() and canGoForward()
Histories ==
  {[canGoBack |-> FALSE, canGoForward |-> FALSE],
   [canGoBack |-> TRUE, canGoForward |-> FALSE]}

\* the new tab button, or a favorite opened in a new tab
UiNewTab ==
  \E options \in AddTabOptions :
    /\ Len(tabs) < MaxViewTabs
    /\ nextId <= MaxViewTabs + 1
    /\ Apply(Deliver(addTab(State, options)))

\* a click on a tab of the sidebar
UiSelectTab ==
  \E id \in {tabs[i].id : i \in 1..Len(tabs)} :
    Apply(Deliver(setActiveTab(State, id)))

\* typing into the address input
UiTypeAddress ==
  /\ tabs # <<>>
  /\ Apply(Deliver(setAddressBarValue(State, Str_host2)))

\* Enter in the address input: commitAddressBar, then navigateToUrl with
\* the url it returned, which does nothing for an empty url
UiEnter ==
  /\ tabs # <<>>
  /\ LET s1 == commitAddressBar(State)
     IN  Apply(IF s1.returned = Str_empty THEN Deliver(s1)
               ELSE navigateToUrl(s1, s1.returned))

\* did-start-loading
WebviewStart ==
  /\ webview.load.phase = "requested"
  /\ Apply(Deliver([onDidStartLoading(State)
                      EXCEPT !.webview.load.phase = "started"]))

\* did-navigate: the webview now shows the page
WebviewNavigate ==
  \E history \in Histories :
    /\ webview.load.phase = "started"
    /\ Apply(Deliver(
         [onWebviewNavigate(State, webview.load.url, history)
            EXCEPT !.webview.url = webview.load.url,
                   !.webview.load.phase = "committed"]))

\* page-title-updated
WebviewTitle ==
  /\ webview.load.phase = "committed"
  /\ Apply(Deliver([onPageTitleUpdated(State, "Page")
                      EXCEPT !.webview.load.phase = "titled"]))

\* did-fail-load
WebviewFail ==
  /\ webview.load.phase = "started"
  /\ Apply(Deliver([onDidFailLoad(State)
                      EXCEPT !.webview.load.phase = "failed"]))

\* did-stop-loading
WebviewStop ==
  \E history \in Histories :
    /\ webview.load.phase \in {"started", "committed", "titled", "failed"}
    /\ Apply(Deliver([onDidStopLoading(State, history)
                        EXCEPT !.webview.load = NoLoad]))

-----------------------------------------------------------------------------
(* Actions: widgets *)

WidgetIds == {"notes", "weather", "quicklinks"}

\* the widget definitions handed to registerWidget: the default widgets,
\* a re-registration under another title, and invalid definitions
WidgetInputs ==
  [id : WidgetIds \cup {""}, title : {"", "Widget", "Widget 2"},
   hasRender : BOOLEAN]

RegisterWidget ==
  \E widget \in WidgetInputs : Apply(registerWidget(State, widget))

EnableWidget ==
  \E widgetId \in WidgetIds : Apply(enableWidget(State, widgetId))

DisableWidget ==
  \E widgetId \in WidgetIds : Apply(disableWidget(State, widgetId))

-----------------------------------------------------------------------------
(* Actions: startup *)

BlobKeys == {"browser_tabs", "browser_conversations", "browser_ntp"}

\* a persisted text is damaged outside the program
CorruptStorage ==
  \E key \in BlobKeys :
    /\ storage' = [storage EXCEPT ![key] = CorruptBlob]
    /\ UNCHANGED <<tabs, activeTabId, addressBar, navigation, ui, chat,
                   conversations, ntp, apiKey, streams, webview,
                   widgetRegistry, nextId>>

\* the page is loaded again and initBrowser calls BrowserState.init().  The
\* identifiers of the default favorites are drawn at most while nextId is
\* small.
Restart ==
  /\ (Has(storage.browser_ntp, "absent") \/ Has(storage.browser_ntp, "corrupt"))
       => nextId <= MaxStartupIds + 1
  /\ Apply(init(Reloaded(State)))

-----------------------------------------------------------------------------
(* Actions: favorites *)

FavoriteInputs ==
  {[title |-> "Site", url |-> Str_url], [url |-> Str_url2]}

AddFavorite ==
  \E favorite \in FavoriteInputs :
    /\ nextId <= MaxFavorites
    /\ Apply(addFavorite(State, favorite))

UpdateFavorite ==
  \E id \in IdInputs :
    Apply(updateFavorite(State, id, [title |-> "Renamed"]))

RemoveFavorite ==
  \E id \in IdInputs : Apply(removeFavorite(State, id))

ReorderFavorite ==
  \E draggedId \in IdInputs, targetId \in IdInputs :
    Apply(reorderFavorite(State, draggedId, targetId))

-----------------------------------------------------------------------------
(* Specifications *)

\* addTab and removeTab from the empty tab store; setActiveTab moves the
\* active tab, so that removals start from every position of it
NextAddRemove ==
  \/ AddTab(AddTabOptions, MaxTabs, MaxIds)
  \/ RemoveTab
  \/ SetActiveTab

SpecAddRemove == Init /\ [][NextAddRemove]_vars

\* the tab store
NextTabs ==
  \/ AddTab(AddTabOptions, MaxTabs, MaxIds) \/ RemoveTab \/ CloseOtherTabs
  \/ CloseTabsToRight \/ DuplicateTab \/ TogglePinTab \/ ReorderTab
  \/ SetActiveTab

SpecTabs == Init /\ [][NextTabs]_vars

\* the address bar and tab updates
NextNav ==
  \/ AddTab(AddTabOptions, MaxNavTabs, MaxNavTabs + 1) \/ RemoveTab
  \/ SetActiveTab \/ UpdateTab \/ SetAddressBarValue \/ CommitAddressBar
  \/ CancelAddressBarEdit

SpecNav == Init /\ [][NextNav]_vars

\* the loading flags
NextLoading ==
  \/ AddTab(AddTabOptions, MaxTabs, MaxIds) \/ RemoveTab \/ SetActiveTab
  \/ SetTabLoading

SpecLoading == Init /\ [][NextLoading]_vars

\* the conversation store's own operations
NextConversations ==
  \/ AddConversation(MaxConvIds) \/ SetActiveConversation
  \/ DeleteConversation \/ AddMessage(MaxConvIds) \/ UpdateMessage

SpecConversations == Init /\ [][NextConversations]_vars

\* the active-conversation pointer: every operation that writes it
NextActiveConversation ==
  \/ AddConversation(MaxConvIds) \/ SetActiveConversation
  \/ DeleteConversation \/ SetChatInput \/ SubmitChat

SpecActiveConversation == Init /\ [][NextActiveConversation]_vars

\* conversations deleted while their reply is streaming, next to others
NextOrphanStream ==
  \/ SetApiKey \/ SetChatInput \/ SubmitPrompt
  \/ AddConversation(MaxOverlapIds) \/ DeleteConversation
  \/ StreamChunkWithin(MaxFairChunks) \/ StreamComplete \/ StreamError

SpecOrphanStream == Init /\ [][NextOrphanStream]_vars

\* startup after earlier sessions left their blobs, intact or damaged
NextStartup ==
  \/ AddTab(AddTabOptions, MaxStartupTabs, MaxStartupIds)
  \/ RemoveTab \/ SetActiveTab \/ SetAddressBarValue \/ CommitAddressBar
  \/ CancelAddressBarEdit \/ AddConversation(MaxStartupIds)
  \/ CorruptStorage \/ Restart

SpecStartup == Init /\ [][NextStartup]_vars

\* sessions that leave blobs behind, damage to the blobs, and startup
NextRestore ==
  \/ AddTab(AddTabOptions, MaxStartupTabs, MaxStartupIds)
  \/ AddConversation(MaxStartupIds) \/ CorruptStorage \/ Restart

SpecRestore == Init /\ [][NextRestore]_vars

\* addresses typed and committed
NextNormalize == TypeUrl \/ CommitAddressBar

SpecNormalize == Init /\ [][NextNormalize]_vars

\* drag and drop in the tab list and in the favorites
NextReorder ==
  \/ AddTab(AddTabOptions, MaxTabs, MaxIds) \/ ReorderTab
  \/ AddFavorite \/ ReorderFavorite

SpecReorder == Init /\ [][NextReorder]_vars

\* chat submission and the streaming pipeline
NextChat ==
  \/ SetChatInput \/ SubmitChat \/ SetApiKey \/ StreamChunk \/ StreamComplete
  \/ StreamError \/ SetActiveConversation \/ DeleteConversation

SpecChat == Init /\ [][NextChat]_vars

\* prompts that overlap: a second submission while a stream is open
NextOverlap ==
  \/ SetApiKey \/ SetChatInput \/ SubmitPrompt \/ StreamChunk
  \/ StreamComplete \/ StreamError \/ DeleteConversation

SpecOverlap == Init /\ [][NextOverlap]_vars

\* overlapping prompts whose streams all end: every stream the provider
\* started eventually reports done or fails
NextStreams ==
  \/ SetApiKey \/ SetChatInput \/ SubmitPrompt
  \/ StreamChunkWithin(MaxFairChunks) \/ StreamComplete \/ StreamError
  \/ DeleteConversation

SpecStreamsEnd ==
  /\ Init /\ [][NextStreams]_vars
  /\ \A messageId \in 1..MaxOverlapIds : WF_streams(StreamEnds(messageId))

\* the favorites list
\* the chat panel next to open pages: submissions while tabs with and
\* without a page are active
NextPageChat ==
  \/ AddTab(AddTabOptions, MaxNavTabs, MaxNavTabs + 1)
  \/ RemoveTab
  \/ SetActiveTab
  \/ SetChatInput
  \/ SubmitChat
  \/ DeleteConversation

SpecPageChat == Init /\ [][NextPageChat]_vars

\* the browser window: tabs are opened and selected, addresses typed and
\* entered, and the webview reports the progress of its page loads
NextView ==
  \/ UiNewTab \/ UiSelectTab \/ UiTypeAddress \/ UiEnter
  \/ WebviewStart \/ WebviewNavigate \/ WebviewTitle \/ WebviewFail
  \/ WebviewStop

SpecView == Init /\ [][NextView]_vars

NextFavorites ==
  AddFavorite \/ UpdateFavorite \/ RemoveFavorite \/ ReorderFavorite

SpecFavorites == Init /\ [][NextFavorites]_vars

NextWidgets == RegisterWidget \/ EnableWidget \/ DisableWidget

SpecWidgets == Init /\ [][NextWidgets]_vars

Next == NextFavorites \/ NextTabs \/ NextNav \/ NextLoading \/ NextConversations \/ NextChat

Spec == Init /\ [][Next]_vars

-----------------------------------------------------------------------------
(* Shared vocabulary of the properties *)

TabExists(id) == FindIndex(tabs, id) # NotFound
ConversationExists(id) == FindIndex(conversations, id) # NotFound
FavoriteExists(id) == FindIndex(ntp.favorites, id) # NotFound
TabIds == {tabs[i].id : i \in 1..Len(tabs)}

-----------------------------------------------------------------------------
(* C1: in every state reached by addTab and removeTab calls (removeTab     *)
(* with known, stale or never-issued ids) from a state where the active    *)
(* tab is any tab of the collection, activeTabId is the id of a tab of     *)
(* the collection, or the collection is empty and activeTabId is null.     *)
C1_ActiveTabInvariant ==
  \/ TabExists(activeTabId)
  \/ (tabs = <<>> /\ activeTabId = NULL)

\* tabs were removed, among them the only tab at some point (the first tab
\* is gone), and a tab added since is active
C1_Witness ==
  /\ Len(tabs) >= 1
  /\ nextId > Len(tabs) + 1
  /\ 1 \notin TabIds
  /\ TabExists(activeTabId)

\* every tab was removed again
C1_WitnessEmpty == tabs = <<>> /\ nextId > 1 /\ activeTabId = NULL

-----------------------------------------------------------------------------
(* C2: no pinned tab is positioned after an unpinned tab: for all i < j,   *)
(* if tabs[i] is unpinned then tabs[j] is unpinned.  Stated for every      *)
(* state reachable through the tab store operations (SpecTabs).            *)
C2_PinPartition ==
  \A i \in 1..Len(tabs), j \in 1..Len(tabs) :
    (i < j /\ ~tabs[i].isPinned) => ~tabs[j].isPinned

-----------------------------------------------------------------------------
(* C3: removeTab(id) of the active tab at position k: if other tabs        *)
(* remain, the tab that was immediately to its left (or, when it was the   *)
(* first tab, the tab that becomes the first) is the active tab            *)
(* afterwards; if it was the only tab, the collection is empty,            *)
(* activeTabId is null and the address bar value is empty.                 *)
C3_RemovalReplacement ==
  \A id \in TabIds :
    activeTabId = id =>
      LET k == FindIndex(tabs, id)
          r == removeTab(State, id)
      IN  IF Len(tabs) > 1
          THEN /\ r.activeTabId = IF k = 1 THEN tabs[2].id ELSE tabs[k - 1].id
               /\ k = 1 => r.tabs[1].id = r.activeTabId
               /\ Len(r.tabs) = Len(tabs) - 1
          ELSE /\ r.tabs = <<>>
               /\ r.activeTabId = NULL
               /\ r.addressBar.value = Str_empty

\* three tabs with the last one active: its removal activates the middle one
C3_Witness ==
  /\ Len(tabs) = 3
  /\ activeTabId = tabs[3].id
  /\ removeTab(State, activeTabId).activeTabId = tabs[2].id

-----------------------------------------------------------------------------
(* C4: every operation that takes an id is a silent no-op when the id does *)
(* not refer to an existing entity: the state (tabs, active pointers,      *)
(* conversations, favorites, persisted blobs) is unchanged and no event is *)
(* emitted.  State carries an empty event list, so equality with State     *)
(* says both.                                                              *)
C4_UnknownIdNoOp ==
  /\ \A id \in IdInputs :
       ~TabExists(id) =>
         /\ removeTab(State, id) = State
         /\ closeOtherTabs(State, id) = State
         /\ closeTabsToRight(State, id) = State
         /\ duplicateTab(State, id) = State
         /\ togglePinTab(State, id) = State
         /\ setActiveTab(State, id) = State
         /\ updateTab(State, id, [url |-> Str_url2]) = State
         /\ setTabLoading(State, id, TRUE) = State
         /\ \A other \in IdInputs :
              /\ reorderTab(State, id, other) = State
              /\ reorderTab(State, other, id) = State
  /\ \A id \in IdInputs :
       ~ConversationExists(id) =>
         /\ addMessage(State, id, [role |-> "user", content |-> Str_hi])
              = State
         /\ setActiveConversation(State, id) = State
         /\ deleteConversation(State, id) = State
         /\ \A messageId \in IdInputs :
              updateMessage(State, id, messageId, [content |-> Str_hi])
                = State
  /\ \A id \in IdInputs :
       ~FavoriteExists(id) =>
         /\ updateFavorite(State, id, [title |-> "Renamed"]) = State
         /\ removeFavorite(State, id) = State
         /\ \A other \in IdInputs :
              /\ reorderFavorite(State, id, other) = State
              /\ reorderFavorite(State, other, id) = State

-----------------------------------------------------------------------------
(* C5: for every existing tab X and every prior address bar state (any     *)
(* value, isEditing true or false), setActiveTab(X) leaves                 *)
(* addressBar.value equal to X.url and addressBar.isEditing false.         *)
C5_AddressBarMirroring ==
  \A id \in TabIds :
    LET r == setActiveTab(State, id)
    IN  /\ r.addressBar.value = tabs[FindIndex(tabs, id)].url
        /\ r.addressBar.isEditing = FALSE
        /\ r.activeTabId = id

\* the user is mid-edit with a value that is no tab's url, and activating a
\* tab with a url replaces the typed value
C5_Witness ==
  /\ addressBar.isEditing
  /\ addressBar.value = Str_query
  /\ \E id \in TabIds :
       /\ tabs[FindIndex(tabs, id)].url = Str_url
       /\ id # activeTabId
       /\ setActiveTab(State, id).addressBar.value = Str_url

-----------------------------------------------------------------------------
Placeholder(st) ==
  LET i == FindIndex(conversations, st.conversationId)
      j == FindIndex(conversations[i].messages, st.messageId)
  IN  conversations[i].messages[j]

PlaceholderExists(st) ==
  /\ ConversationExists(st.conversationId)
  /\ FindIndex(conversations[FindIndex(conversations, st.conversationId)]
                 .messages, st.messageId) # NotFound

(* C6: for an AI invocation whose stream delivered any sequence of chunks  *)
(* (possibly none) followed by one completion, the placeholder message's   *)
(* content equals the last cumulative content delivered (the empty string  *)
(* if there were no chunks) and its isStreaming flag is false.  A stream   *)
(* record keeps the cumulative text the provider loop handed to onChunk.   *)
C6_StreamFinalState ==
  \A st \in streams :
    (st.phase = "done" /\ PlaceholderExists(st)) =>
      /\ Placeholder(st).content = st.fullContent
      /\ Has(Placeholder(st), "isStreaming")
      /\ Placeholder(st).isStreaming = FALSE

\* a stream completed after two chunks; its placeholder holds both
C6_Witness ==
  \E st \in streams :
    /\ st.phase = "done"
    /\ Len(st.fullContent) = 2
    /\ PlaceholderExists(st)
    /\ Placeholder(st).content = st.fullContent

\* a stream completed without any chunk; its placeholder is empty
C6_WitnessNoChunk ==
  \E st \in streams :
    /\ st.phase = "done"
    /\ st.fullContent = Str_empty
    /\ PlaceholderExists(st)
    /\ Placeholder(st).content = Str_empty

-----------------------------------------------------------------------------
DerivedTitle(content) ==
  IF Len(content) > TitleLimit
  THEN SubSeq(content, 1, TitleLimit) \o <<".", ".", ".">>
  ELSE content

HasUserMessage(c) == \E j \in 1..Len(c.messages) : c.messages[j].role = "user"

(* C7: for a conversation created with the default title, the first        *)
(* appended user message sets the title to its content truncated to 50     *)
(* characters plus "..." when longer, and no later addMessage of a user    *)
(* message changes the title again, whatever the first one's content was.  *)
(* Every conversation of SpecConversations is created with the default     *)
(* title.                                                                  *)
C7_TitleDerivedOnce ==
  \A i \in 1..Len(conversations), content \in MessageContents :
    LET c == conversations[i]
        r == addMessage(State, c.id, [role |-> "user", content |-> content])
    IN  IF HasUserMessage(c)
        THEN r.conversations[i].title = c.title
        ELSE r.conversations[i].title = DerivedTitle(content)

\* the part of C7 the code satisfies: the first user message of a
\* conversation that still has the default title sets the derived title
C7_FirstUserMessageSetsTitle ==
  \A i \in 1..Len(conversations), content \in MessageContents :
    LET c == conversations[i]
        r == addMessage(State, c.id, [role |-> "user", content |-> content])
    IN  (~HasUserMessage(c) /\ c.title = Str_newConversation) =>
          r.conversations[i].title = DerivedTitle(content)

-----------------------------------------------------------------------------
(* C8: reorderTab(draggedId, targetId) where the dragged tab and the       *)
(* target tab have different pin flags leaves the tab order, the active    *)
(* tab and the persisted snapshot unchanged (and emits nothing).           *)
C8_ReorderBoundary ==
  \A draggedId \in TabIds, targetId \in TabIds :
    tabs[FindIndex(tabs, draggedId)].isPinned
      # tabs[FindIndex(tabs, targetId)].isPinned =>
        LET r == reorderTab(State, draggedId, targetId)
        IN  /\ r.tabs = tabs
            /\ r.activeTabId = activeTabId
            /\ r.storage = storage
            /\ r.emitted = <<>>

\* a pinned tab followed by two unpinned ones: the pinned tab is dragged
\* onto the last one
C8_Witness ==
  /\ Len(tabs) = 3
  /\ tabs[1].isPinned /\ ~tabs[2].isPinned /\ ~tabs[3].isPinned
  /\ reorderTab(State, tabs[1].id, tabs[3].id).tabs = tabs

-----------------------------------------------------------------------------
(* C9: setTabLoading(id, b) on an existing tab sets that tab's isLoading   *)
(* to b; if the tab is the active tab ui.isLoading becomes b, otherwise    *)
(* ui.isLoading is unchanged; it emits loadingStateChanged with            *)
(* {tabId: id, isLoading: b} and then stateChanged.                        *)
C9_SetTabLoading ==
  \A id \in TabIds, b \in BOOLEAN :
    LET r == setTabLoading(State, id, b)
        k == FindIndex(tabs, id)
    IN  /\ r.tabs[k].isLoading = b
        /\ \A i \in 1..Len(tabs) : i # k => r.tabs[i] = tabs[i]
        /\ r.ui.isLoading = IF id = activeTabId THEN b ELSE ui.isLoading
        /\ r.emitted = <<[event |-> "loadingStateChanged",
                          data |-> [tabId |-> id, isLoading |-> b]],
                         [event |-> "stateChanged"]>>

\* the active tab is loading and a background tab stops loading: the
\* process-wide flag stays set
C9_Witness ==
  /\ ui.isLoading
  /\ \E id \in TabIds :
       /\ id # activeTabId
       /\ tabs[FindIndex(tabs, id)].isLoading
       /\ setTabLoading(State, id, FALSE).ui.isLoading
       /\ ~setTabLoading(State, id, FALSE).tabs[FindIndex(tabs, id)].isLoading

-----------------------------------------------------------------------------
IsBlank(str) == \A i \in 1..Len(str) : str[i] \in Whitespace

(* C10: submitChat with an empty or whitespace-only input buffer creates   *)
(* no conversation, appends no message, emits no event and leaves the      *)
(* whole state (including the input buffer and chat.isLoading) unchanged.  *)
C10_BlankSubmitNoOp ==
  IsBlank(chat.inputValue) =>
    \A pageContext \in PageContexts : submitChat(State, pageContext) = State

\* the buffer holds spaces only, with a conversation active and the
\* service configured
C10_Witness ==
  /\ chat.inputValue = Str_blank
  /\ ConversationExists(chat.activeConversationId)
  /\ isConfigured(State)
  /\ submitChat(State, NoPageContext) = State

-----------------------------------------------------------------------------
\* the messages of conversation id in state s (none when it does not exist)
MessagesOf(s, id) ==
  IF FindIndex(s.conversations, id) = NotFound THEN <<>>
  ELSE s.conversations[FindIndex(s.conversations, id)].messages

AnyStreaming(s) ==
  \E i \in 1..Len(s.conversations) :
    \E j \in 1..Len(s.conversations[i].messages) :
      LET m == s.conversations[i].messages[j]
      IN  Has(m, "isStreaming") /\ m.isStreaming

EmittedEvents(r) == {r.emitted[i].event : i \in 1..Len(r.emitted)}

(* C11: when no provider credential is configured, a non-blank submitChat  *)
(* appends to the conversation exactly the user message followed by one    *)
(* assistant message whose content is the missing-configuration text; no   *)
(* request to the completion service is opened, chat.isLoading keeps its   *)
(* value and chatLoadingChanged is not emitted, and no message that was    *)
(* not streaming before is flagged isStreaming.                            *)
C11_NotConfiguredPath ==
  (apiKey = "" /\ ~IsBlank(chat.inputValue)) =>
    \A pageContext \in PageContexts :
      LET r == submitChat(State, pageContext)
          id == r.chat.activeConversationId
          before == MessagesOf(State, id)
          after == MessagesOf(r, id)
          n == Len(before)
      IN  /\ Len(after) = n + 2
          /\ SubSeq(after, 1, n) = before
          /\ after[n + 1].role = "user"
          /\ after[n + 1].content = Trim(chat.inputValue)
          /\ after[n + 2].role = "assistant"
          /\ after[n + 2].content = Str_notConfigured
          /\ ~Has(after[n + 1], "isStreaming")
          /\ ~Has(after[n + 2], "isStreaming")
          /\ r.streams = streams
          /\ r.chat.isLoading = chat.isLoading
          /\ "chatLoadingChanged" \notin EmittedEvents(r)
          /\ AnyStreaming(r) = AnyStreaming(State)
          /\ \A i \in 1..Len(conversations) :
               conversations[i].id # id => r.conversations[i] = conversations[i]

\* no key is set, text is waiting in the buffer and the active conversation
\* already holds messages
C11_Witness ==
  /\ apiKey = ""
  /\ chat.inputValue = Str_hi
  /\ Len(MessagesOf(State, chat.activeConversationId)) >= 2
  /\ LET r == submitChat(State, NoPageContext)
     IN  Len(MessagesOf(r, chat.activeConversationId))
           = Len(MessagesOf(State, chat.activeConversationId)) + 2

\* no key is set and no conversation exists yet: submitChat creates one
C11_WitnessNewConversation ==
  /\ apiKey = ""
  /\ chat.inputValue = Str_hi
  /\ conversations = <<>>
  /\ Len(submitChat(State, NoPageContext).conversations) = 1

-----------------------------------------------------------------------------
FavoriteIds(s) == [i \in 1..Len(s.ntp.favorites) |-> s.ntp.favorites[i].id]

(* C12: reorderFavorite(draggedId, targetId) with two distinct existing    *)
(* ids yields a permutation of the favorites in which the dragged favorite *)
(* is immediately before the target and the other favorites keep their     *)
(* relative order, for leftward and for rightward drags.                   *)
C12_ReorderFavorite ==
  \A draggedId \in 1..nextId, targetId \in 1..nextId :
    (draggedId # targetId /\ FavoriteExists(draggedId)
       /\ FavoriteExists(targetId)) =>
      LET r == reorderFavorite(State, draggedId, targetId)
          d == FindIndex(ntp.favorites, draggedId)
          d2 == FindIndex(r.ntp.favorites, draggedId)
      IN  /\ Len(r.ntp.favorites) = Len(ntp.favorites)
          /\ d2 # NotFound
          /\ r.ntp.favorites[d2] = ntp.favorites[d]
          /\ RemoveAt(r.ntp.favorites, d2) = RemoveAt(ntp.favorites, d)
          /\ FindIndex(r.ntp.favorites, targetId) = d2 + 1

\* [F1, F2, F3] with reorderFavorite(F3, F1) gives [F3, F1, F2]
C12_Witness ==
  /\ FavoriteIds(State) = <<1, 2, 3>>
  /\ FavoriteIds(reorderFavorite(State, 3, 1)) = <<3, 1, 2>>

\* a rightward drag: [F1, F2, F3] with reorderFavorite(F1, F3) gives
\* [F2, F1, F3]
C12_WitnessRightward ==
  /\ FavoriteIds(State) = <<1, 2, 3>>
  /\ FavoriteIds(reorderFavorite(State, 1, 3)) = <<2, 1, 3>>

-----------------------------------------------------------------------------
(* C13: closeOtherTabs(keepId) with an existing keepId leaves the          *)
(* collection containing exactly the kept tab, and that tab is the active  *)
(* tab afterwards, whichever tab was active before.                        *)
C13_CloseOtherTabs ==
  \A keepId \in TabIds :
    LET r == closeOtherTabs(State, keepId)
    IN  /\ r.tabs = <<tabs[FindIndex(tabs, keepId)]>>
        /\ r.activeTabId = keepId

\* three tabs, the kept one is in the middle and is not the active tab
C13_Witness ==
  /\ Len(tabs) = 3
  /\ activeTabId = tabs[3].id
  /\ closeOtherTabs(State, tabs[2].id).activeTabId = tabs[2].id
  /\ Len(closeOtherTabs(State, tabs[2].id).tabs) = 1

-----------------------------------------------------------------------------
(* C14: closeTabsToRight(id) with an existing id removes exactly the tabs  *)
(* positioned after the reference tab, and the reference tab is the active *)
(* tab afterwards, whichever tab (left of, equal to, or right of the       *)
(* reference) was active before.                                           *)
C14_CloseTabsToRight ==
  \A id \in TabIds :
    LET r == closeTabsToRight(State, id)
    IN  /\ r.tabs = SubSeq(tabs, 1, FindIndex(tabs, id))
        /\ r.activeTabId = id

(* C14, amended: closeTabsToRight(id) with an existing id removes exactly  *)
(* the tabs positioned after the reference tab; the reference tab becomes  *)
(* the active tab when the active tab was among the removed ones, and the  *)
(* active tab is unchanged when it was the reference tab or left of it.    *)
C14_CloseTabsToRightAmended ==
  \A id \in TabIds :
    LET r == closeTabsToRight(State, id)
        k == FindIndex(tabs, id)
        a == FindIndex(tabs, activeTabId)
    IN  /\ r.tabs = SubSeq(tabs, 1, k)
        /\ r.activeTabId = IF a = NotFound \/ a > k THEN id ELSE activeTabId

\* the active tab is to the right of the reference tab and is removed
C14_Witness ==
  /\ Len(tabs) = 3
  /\ activeTabId = tabs[3].id
  /\ closeTabsToRight(State, tabs[2].id).activeTabId = tabs[2].id

\* the active tab is to the left of the reference tab and stays active
C14_WitnessLeft ==
  /\ Len(tabs) = 3
  /\ activeTabId = tabs[1].id
  /\ closeTabsToRight(State, tabs[2].id).activeTabId = tabs[1].id
  /\ Len(closeTabsToRight(State, tabs[2].id).tabs) = 2

-----------------------------------------------------------------------------
\* in the events an operation emitted, every stateChanged comes after the
\* operation's specific event
SpecificFirst(emittedEvents, specific) ==
  \A i \in 1..Len(emittedEvents) :
    emittedEvents[i].event = "stateChanged" =>
      \E j \in 1..(i - 1) : emittedEvents[j].event = specific

(* C15: within a tab store mutation the specific event is emitted before   *)
(* the generic stateChanged: during addTab no stateChanged is delivered    *)
(* before tabAdded, and during removeTab none before tabRemoved.           *)
C15_SpecificBeforeGeneric ==
  /\ \A options \in AddTabOptions :
       SpecificFirst(addTab(State, options).emitted, "tabAdded")
  /\ \A id \in TabIds :
       SpecificFirst(removeTab(State, id).emitted, "tabRemoved")

-----------------------------------------------------------------------------
\* at every emit of the operation whose result is r, the persisted blob
\* equalled the snapshot of the state in memory
TabsDurable(r) ==
  \A i \in 1..Len(r.observed) :
    r.observed[i].persistedTabs = r.observed[i].memoryTabs

ConversationsDurable(r) ==
  \A i \in 1..Len(r.observed) :
    r.observed[i].persistedConversations = r.observed[i].memoryConversations

TabStoreDurable ==
  /\ \A options \in AddTabOptions : TabsDurable(addTab(State, options))
  /\ \A id \in TabIds :
       /\ TabsDurable(removeTab(State, id))
       /\ TabsDurable(closeOtherTabs(State, id))
       /\ TabsDurable(closeTabsToRight(State, id))
       /\ TabsDurable(duplicateTab(State, id))
       /\ TabsDurable(togglePinTab(State, id))
       /\ TabsDurable(setActiveTab(State, id))
       /\ \A updates \in TabUpdates : TabsDurable(updateTab(State, id, updates))
       /\ \A b \in BOOLEAN : TabsDurable(setTabLoading(State, id, b))
       /\ \A targetId \in TabIds : TabsDurable(reorderTab(State, id, targetId))

ConversationStoreDurable ==
  /\ ConversationsDurable(addConversation(State, NoOptions))
  /\ \A id \in 1..nextId :
       ConversationExists(id) =>
         /\ ConversationsDurable(setActiveConversation(State, id))
         /\ ConversationsDurable(deleteConversation(State, id))
         /\ \A content \in MessageContents :
              ConversationsDurable(
                addMessage(State, id, [role |-> "user", content |-> content]))
         /\ \A messageId \in 1..nextId :
              ConversationsDurable(
                updateMessage(State, id, messageId, [content |-> Str_hi]))

(* C16: at the moment any event of a tab store or conversation store       *)
(* operation is delivered to a listener, the persisted blob already holds  *)
(* the snapshot of the state in memory (the tabs snapshot {activeTabId,    *)
(* tabs} and the conversations array).                                     *)
C16_PersistedBeforeEmit == TabStoreDurable /\ ConversationStoreDurable

-----------------------------------------------------------------------------
\* the placeholder of stream st in state s
PlaceholderIn(s, st) ==
  LET ms == MessagesOf(s, st.conversationId)
  IN  ms[FindIndex(ms, st.messageId)]

(* C17: if the completion service fails at any point after the placeholder *)
(* was created (before any chunk or after some chunks), the placeholder's  *)
(* content is overwritten by an error text, isError is true, isStreaming   *)
(* is false and chat.isLoading is false.                                   *)
C17_StreamFailure ==
  \A st \in streams :
    (st.phase = "open" /\ PlaceholderExists(st)) =>
      LET r == streamError(State, st, Str_failed)
          m == PlaceholderIn(r, st)
      IN  /\ m.content = ErrorText(Str_failed)
          /\ Has(m, "isError") /\ m.isError
          /\ Has(m, "isStreaming") /\ ~m.isStreaming
          /\ ~r.chat.isLoading

\* the request fails after a chunk was written into the placeholder
C17_Witness ==
  \E st \in streams :
    /\ st.phase = "open"
    /\ st.fullContent # Str_empty
    /\ PlaceholderExists(st)
    /\ Placeholder(st).content = st.fullContent
    /\ chat.isLoading
    /\ PlaceholderIn(streamError(State, st, Str_failed), st).isError

\* the request fails before any chunk arrived
C17_WitnessNoChunk ==
  \E st \in streams :
    /\ st.phase = "open"
    /\ st.fullContent = Str_empty
    /\ PlaceholderExists(st)
    /\ PlaceholderIn(streamError(State, st, Str_failed), st).isError

-----------------------------------------------------------------------------
(* C18: a conversation created by submitChat while the active tab has an   *)
(* http(s) URL records originatingContext = page and a pageUrl equal to    *)
(* that tab's URL; one created with no active tab or a non-http URL        *)
(* records originatingContext = global.                                    *)
C18_OriginatingContext ==
  (~IsBlank(chat.inputValue)
     /\ ~ConversationExists(chat.activeConversationId)) =>
    \A pageContext \in PageContexts :
      LET r == submitChat(State, pageContext)
          c == r.conversations[Len(r.conversations)]
          a == FindIndex(tabs, activeTabId)
      IN  /\ Len(r.conversations) = Len(conversations) + 1
          /\ IF a # NotFound /\ MatchesHttpScheme(tabs[a].url)
             THEN /\ c.originatingContext = "page"
                  /\ Has(c, "pageUrl")
                  /\ c.pageUrl = tabs[a].url
             ELSE c.originatingContext = "global"

-----------------------------------------------------------------------------
(* C19: updateTab(id, {url}) writes the new url into addressBar.value only *)
(* when id is the active tab and the address bar is not mid-edit; when     *)
(* isEditing is true or the tab is not active, addressBar.value and        *)
(* isEditing are left unchanged.                                           *)
C19_UpdateTabMirror ==
  \A id \in TabIds, url \in {Str_url, Str_url2} :
    LET r == updateTab(State, id, [url |-> url])
    IN  /\ r.tabs[FindIndex(tabs, id)].url = url
        /\ r.addressBar.isEditing = addressBar.isEditing
        /\ r.addressBar.value =
             IF id = activeTabId /\ ~addressBar.isEditing
             THEN url ELSE addressBar.value

\* the user is typing in the address bar while the active tab navigates
C19_Witness ==
  /\ addressBar.isEditing
  /\ addressBar.value = Str_host
  /\ TabExists(activeTabId)
  /\ updateTab(State, activeTabId, [url |-> Str_url2]).addressBar.value
       = Str_host
  /\ updateTab(State, activeTabId, [url |-> Str_url2])
       .tabs[FindIndex(tabs, activeTabId)].url = Str_url2

\* a background tab navigates while the address bar shows the active tab
C19_WitnessBackground ==
  /\ ~addressBar.isEditing
  /\ \E id \in TabIds :
       /\ id # activeTabId
       /\ addressBar.value # Str_url2
       /\ updateTab(State, id, [url |-> Str_url2]).addressBar = addressBar

-----------------------------------------------------------------------------
(* C20: after commitAddressBar with an active tab, the active tab's url    *)
(* and addressBar.value both equal the normalization of the previous       *)
(* buffer, isEditing is false, that url is returned, and                   *)
(* addressBarCommitted(url) is emitted, once, followed by stateChanged.    *)
C20_Commit ==
  TabExists(activeTabId) =>
    LET r == commitAddressBar(State)
        url == normalizeUrl(addressBar.value)
        n == Len(r.emitted)
    IN  /\ r.tabs[FindIndex(tabs, activeTabId)].url = url
        /\ r.addressBar.value = url
        /\ ~r.addressBar.isEditing
        /\ r.activeTabId = activeTabId
        /\ r.returned = url
        /\ n >= 2
        /\ r.emitted[n - 1] = [event |-> "addressBarCommitted", data |-> url]
        /\ r.emitted[n] = [event |-> "stateChanged"]
        /\ \A i \in 1..(n - 2) : r.emitted[i].event # "addressBarCommitted"

\* a host name was typed: the commit puts https:// in front of it and the
\* active tab, which showed something else, gets that url
C20_Witness ==
  /\ TabExists(activeTabId)
  /\ addressBar.isEditing
  /\ addressBar.value = Str_host
  /\ tabs[FindIndex(tabs, activeTabId)].url # Str_url
  /\ commitAddressBar(State).tabs[FindIndex(tabs, activeTabId)].url = Str_url
  /\ commitAddressBar(State).addressBar.value = Str_url

-----------------------------------------------------------------------------
(* C21: togglePinTab(id) on an unpinned tab marks it pinned and moves it   *)
(* to the position immediately after the last tab that was already pinned  *)
(* (the first position if none was), leaving the relative order of all     *)
(* other tabs, pinned and unpinned, unchanged.                             *)
C21_PinRelocation ==
  \A id \in TabIds :
    ~tabs[FindIndex(tabs, id)].isPinned =>
      LET r == togglePinTab(State, id)
          k == FindIndex(tabs, id)
          k2 == FindIndex(r.tabs, id)
      IN  /\ k2 # NotFound
          /\ r.tabs[k2] = [tabs[k] EXCEPT !.isPinned = TRUE]
          /\ RemoveAt(r.tabs, k2) = RemoveAt(tabs, k)
          /\ k2 = 1 \/ r.tabs[k2 - 1].isPinned
          /\ \A j \in (k2 + 1)..Len(r.tabs) : ~r.tabs[j].isPinned

\* one pinned tab in front of two unpinned ones; the last one is pinned and
\* moves to the second position
C21_Witness ==
  /\ Len(tabs) = 3
  /\ tabs[1].isPinned /\ ~tabs[2].isPinned /\ ~tabs[3].isPinned
  /\ togglePinTab(State, tabs[3].id).tabs[2].id = tabs[3].id
  /\ togglePinTab(State, tabs[3].id).tabs[3].id = tabs[2].id

-----------------------------------------------------------------------------
(* C22: duplicateTab(id) on an existing tab inserts a new tab with a fresh *)
(* id and the source's title, url and favicon at the index immediately     *)
(* after the source, makes the new tab active, and leaves the source tab   *)
(* and the order of all other tabs unchanged.                              *)
C22_DuplicateTab ==
  \A id \in TabIds :
    LET r == duplicateTab(State, id)
        k == FindIndex(tabs, id)
        copy == r.tabs[k + 1]
    IN  /\ Len(r.tabs) = Len(tabs) + 1
        /\ copy.id \notin TabIds
        /\ copy.title = tabs[k].title
        /\ copy.url = tabs[k].url
        /\ copy.favicon = tabs[k].favicon
        /\ r.activeTabId = copy.id
        /\ RemoveAt(r.tabs, k + 1) = tabs

\* the first of two tabs is duplicated while the second one is active
C22_Witness ==
  /\ Len(tabs) = 2
  /\ activeTabId = tabs[2].id
  /\ tabs[1].url = Str_url
  /\ LET r == duplicateTab(State, tabs[1].id)
     IN  /\ r.tabs[2].url = Str_url
         /\ r.tabs[3] = tabs[2]
         /\ r.activeTabId = r.tabs[2].id

-----------------------------------------------------------------------------
\* every tab of the collection that is missing from result r was announced
\* by a tabRemoved event carrying it
RemovalsAnnounced(r) ==
  \A i \in 1..Len(tabs) :
    FindIndex(r.tabs, tabs[i].id) = NotFound =>
      \E j \in 1..Len(r.emitted) :
        r.emitted[j] = [event |-> "tabRemoved", data |-> tabs[i]]

(* C24: every tab that leaves the tab collection, whether by removeTab,    *)
(* closeOtherTabs or closeTabsToRight, is announced by a tabRemoved event  *)
(* carrying that tab.                                                      *)
C24_RemovalsAnnounced ==
  \A id \in TabIds :
    /\ RemovalsAnnounced(removeTab(State, id))
    /\ RemovalsAnnounced(closeOtherTabs(State, id))
    /\ RemovalsAnnounced(closeTabsToRight(State, id))

-----------------------------------------------------------------------------
(* C23: when the active tab changes, the view only switches what is shown  *)
(* and never issues a navigation (a URL load) on the rendering surface.    *)
C23_NoNavigationOnSwitch ==
  \A id \in TabIds : Deliver(setActiveTab(State, id)).loaded = <<>>

-----------------------------------------------------------------------------
\* the position of the tab whose page load is in progress
LoadingTabIndex == FindIndex(tabs, webview.load.tabId)

LoadInPhase(phases) ==
  /\ webview.load.phase \in phases
  /\ LoadingTabIndex # NotFound

(* C29: a load-start, load-stop, resolved-URL, title or load-failure fact  *)
(* reported by the rendering surface is applied to the tab whose page load *)
(* produced it, and to no other tab, also when the active tab changed      *)
(* between the start of the load and the report; a tab whose load has      *)
(* stopped does not keep isLoading = true.                                 *)
C29_ReportsReachTheirTab ==
  /\ LoadInPhase({"requested"}) =>
       onDidStartLoading(State).tabs
         = [tabs EXCEPT ![LoadingTabIndex].isLoading = TRUE]
  /\ LoadInPhase({"started"}) =>
       /\ \A history \in Histories :
            onWebviewNavigate(State, webview.load.url, history).tabs
              = [tabs EXCEPT ![LoadingTabIndex].url = webview.load.url]
       /\ onDidFailLoad(State).tabs
            = [tabs EXCEPT ![LoadingTabIndex].isLoading = FALSE]
  /\ LoadInPhase({"committed"}) =>
       onPageTitleUpdated(State, "Page").tabs
         = [tabs EXCEPT ![LoadingTabIndex].title = "Page"]
  /\ LoadInPhase({"started", "committed", "titled", "failed"}) =>
       \A history \in Histories :
         onDidStopLoading(State, history).tabs
           = [tabs EXCEPT ![LoadingTabIndex].isLoading = FALSE]

-----------------------------------------------------------------------------
(* C30: a navigation reported by the rendering surface for the active tab  *)
(* never overwrites the address bar buffer while the user is mid-edit: the *)
(* typed value survives and isEditing stays true.                          *)
C30_TypedValueSurvives ==
  (addressBar.isEditing /\ LoadInPhase({"started"})
     /\ webview.load.tabId = activeTabId) =>
    \A history \in Histories :
      onWebviewNavigate(State, webview.load.url, history).addressBar
        = addressBar

-----------------------------------------------------------------------------
\* the enabled ids that have a registration, in the order of the enabled list
RegisteredEnabledIds ==
  SelectSeq(ntp.enabledWidgets, LAMBDA id : id \in DOMAIN widgetRegistry)

\* an operation that leaves everything but the enabled-id list and its
\* persisted copy as it was
OnlyEnabledListChanged(r) ==
  /\ r.widgetRegistry = widgetRegistry
  /\ r.ntp.favorites = ntp.favorites
  /\ r.tabs = tabs /\ r.activeTabId = activeTabId
  /\ r.addressBar = addressBar /\ r.navigation = navigation /\ r.ui = ui
  /\ r.chat = chat /\ r.conversations = conversations
  /\ r.storage.browser_tabs = storage.browser_tabs
  /\ r.storage.browser_conversations = storage.browser_conversations

(* C25: getEnabledWidgets returns exactly the registrations of the enabled *)
(* ids that are in the registry, in the order of the enabled list, and     *)
(* drops the ids without registration; enableWidget and disableWidget      *)
(* change only the enabled-id list and never the registry.                 *)
C25_EnabledWidgets ==
  /\ Len(getEnabledWidgets(State)) = Len(RegisteredEnabledIds)
  /\ \A k \in 1..Len(RegisteredEnabledIds) :
       getEnabledWidgets(State)[k] = widgetRegistry[RegisteredEnabledIds[k]]
  /\ \A widgetId \in WidgetIds :
       /\ OnlyEnabledListChanged(enableWidget(State, widgetId))
       /\ OnlyEnabledListChanged(disableWidget(State, widgetId))

\* two enabled ids with a registration, listed against the order of their
\* registration, and an enabled id without one
C25_Witness ==
  /\ Len(RegisteredEnabledIds) >= 2
  /\ Len(RegisteredEnabledIds) < Len(ntp.enabledWidgets)
  /\ \E widgetId \in WidgetIds :
       disableWidget(State, widgetId).ntp.enabledWidgets # ntp.enabledWidgets

\* a registered widget that is not enabled yet, next to an enabled id
\* without registration
C25_WitnessEnable ==
  /\ Len(RegisteredEnabledIds) < Len(ntp.enabledWidgets)
  /\ \E widgetId \in WidgetIds :
       enableWidget(State, widgetId).ntp.enabledWidgets # ntp.enabledWidgets

-----------------------------------------------------------------------------
(* C27: in every reachable state, also when a second prompt is submitted   *)
(* while an earlier invocation is still streaming, chat.isLoading is true  *)
(* whenever some message has isStreaming = true.                           *)
C27_LoadingWhileStreaming ==
  AnyStreaming(State) => chat.isLoading

-----------------------------------------------------------------------------
IsStreamingMessage(m) == Has(m, "isStreaming") /\ m.isStreaming

\* the messages of the stream's conversation that precede its placeholder
PriorHistory(s, st) ==
  LET ms == MessagesOf(s, st.conversationId)
  IN  SubSeq(ms, 1, FindIndex(ms, st.messageId) - 1)

(* C28: the request an invocation sends to the provider is built from the  *)
(* full prior history of the conversation without any streaming            *)
(* placeholder: no message with isStreaming = true is part of it, also     *)
(* when invocations on the same conversation overlap.                      *)
C28_RequestWithoutPlaceholders ==
  \A pageContext \in PageContexts :
    LET r == submitChat(State, pageContext)
    IN  \A st \in r.streams \ streams :
          st.request =
            buildMessages(SelectSeq(PriorHistory(r, st),
                                    LAMBDA m : ~IsStreamingMessage(m)),
                          pageContext, getTabContext(r))

-----------------------------------------------------------------------------
StreamOpen(messageId) ==
  \E st \in streams : st.messageId = messageId /\ st.phase = "open"

StreamEnded(messageId) ==
  \E st \in streams : st.messageId = messageId /\ st.phase # "open"

PlaceholderStreaming(messageId) ==
  \E i \in 1..Len(conversations) :
    \E j \in 1..Len(conversations[i].messages) :
      /\ conversations[i].messages[j].id = messageId
      /\ IsStreamingMessage(conversations[i].messages[j])

(* C26: provided every started stream eventually ends with completion or   *)
(* error, every invocation that set chat.isLoading to true eventually sets *)
(* it back to false, and its placeholder, if it still exists, then has     *)
(* isStreaming = false and keeps it.                                       *)
C26_StreamsSettle ==
  \A messageId \in 1..MaxOverlapIds :
    /\ StreamOpen(messageId) ~>
         (StreamEnded(messageId) /\ ~chat.isLoading
            /\ ~PlaceholderStreaming(messageId))
    /\ [](StreamEnded(messageId) => ~PlaceholderStreaming(messageId))

\* two invocations streaming at once, one of them into a placeholder that
\* already shows a fragment
C26_Witness ==
  /\ chat.isLoading
  /\ \E m1 \in 1..MaxOverlapIds, m2 \in 1..MaxOverlapIds :
       /\ m1 # m2
       /\ StreamOpen(m1) /\ PlaceholderStreaming(m1)
       /\ StreamOpen(m2)

-----------------------------------------------------------------------------
\* the pointer of s is null or names a conversation of s
PointerValid(s) ==
  \/ s.chat.activeConversationId = NULL
  \/ FindIndex(s.conversations, s.chat.activeConversationId) # NotFound

(* C31: chat.activeConversationId is null or the id of an existing         *)
(* conversation in every state reached through addConversation,            *)
(* setActiveConversation, deleteConversation and submitChat;               *)
(* deleteConversation(id) sets it to null exactly when it pointed at the   *)
(* deleted conversation and leaves it unchanged otherwise.                 *)
C31_ActiveConversationPointer ==
  /\ PointerValid(State)
  /\ \A id \in IdInputs :
       LET r == deleteConversation(State, id)
       IN  /\ PointerValid(r)
           /\ r.chat.activeConversationId =
                IF ConversationExists(id) /\ chat.activeConversationId = id
                THEN NULL ELSE chat.activeConversationId

\* two conversations, one of them active: deleting either one is possible
C31_Witness ==
  /\ Len(conversations) >= 2
  /\ ConversationExists(chat.activeConversationId)
  /\ conversations[1].messages # <<>>

-----------------------------------------------------------------------------
\* every conversation of s that r still has keeps in r its message ids as a
\* prefix, each message with the role it had
AppendOnly(s, r) ==
  \A i \in 1..Len(s.conversations) :
    LET before == s.conversations[i].messages
        after == MessagesOf(r, s.conversations[i].id)
    IN  FindIndex(r.conversations, s.conversations[i].id) # NotFound =>
          /\ Len(before) <= Len(after)
          /\ \A j \in 1..Len(before) :
               /\ after[j].id = before[j].id
               /\ after[j].role = before[j].role

(* C32: the message sequence of a conversation is append-only under        *)
(* addMessage, updateMessage, submitChat and the streaming callbacks: the  *)
(* earlier sequence of message ids is a prefix of the later one and no     *)
(* message's role changes after creation.                                  *)
C32_AppendOnly ==
  /\ \A id \in IdInputs, role \in {"user", "assistant"} :
       AppendOnly(State, addMessage(State, id,
                                    [role |-> role, content |-> Str_hi]))
  /\ \A id \in IdInputs, messageId \in IdInputs, updates \in MessageUpdates :
       AppendOnly(State, updateMessage(State, id, messageId, updates))
  /\ \A pageContext \in PageContexts :
       AppendOnly(State, submitChat(State, pageContext))
  /\ \A st \in streams :
       /\ \A fragment \in Fragments :
            AppendOnly(State, streamChunk(State, st, fragment))
       /\ AppendOnly(State, streamComplete(State, st))
       /\ AppendOnly(State, streamError(State, st, Str_failed))

-----------------------------------------------------------------------------
\* an open stream whose conversation was deleted
Orphaned(st) ==
  st.phase = "open" /\ ~ConversationExists(st.conversationId)

(* C33: if a conversation is deleted while its invocation is still         *)
(* streaming, later chunks, completion or error neither re-create the      *)
(* conversation or any message nor alter any other conversation, and       *)
(* chat.isLoading is false once the stream has ended.                      *)
C33_DeletedWhileStreaming ==
  \A st \in streams :
    Orphaned(st) =>
      /\ \A fragment \in Fragments :
           streamChunk(State, st, fragment).conversations = conversations
      /\ streamComplete(State, st).conversations = conversations
      /\ streamError(State, st, Str_failed).conversations = conversations
      /\ ~streamComplete(State, st).chat.isLoading
      /\ ~streamError(State, st, Str_failed).chat.isLoading

\* a stream that already delivered a fragment is still open for a deleted
\* conversation while another conversation exists and the loading flag is up
C33_Witness ==
  /\ chat.isLoading
  /\ \E st \in streams : Orphaned(st) /\ st.fullContent # Str_empty
  /\ conversations # <<>>

-----------------------------------------------------------------------------
(* C34: whenever the address bar is not mid-edit and an active tab exists, *)
(* addressBar.value equals the url of the active tab: after every Tab      *)
(* Store and Address Bar Controller operation and after the restoration of *)
(* the persisted tabs at startup.                                          *)
C34_AddressBarProjection ==
  (~addressBar.isEditing /\ TabExists(activeTabId)) =>
    addressBar.value = tabs[FindIndex(tabs, activeTabId)].url

-----------------------------------------------------------------------------
\* the favorites are the default ones, whatever identifiers they drew
AreDefaultFavorites(favorites) ==
  /\ Len(favorites) = Len(DefaultFavoriteSites)
  /\ \A k \in 1..Len(favorites) :
       /\ favorites[k].title = DefaultFavoriteSites[k].title
       /\ favorites[k].url = DefaultFavoriteSites[k].url

IsCorrupt(key) == Has(storage[key], "corrupt")

(* C36: when a persisted blob is unparseable at startup, init treats it as *)
(* absent and runs to its end: the tab collection is empty with            *)
(* activeTabId null, the conversations are the empty list, and favorites   *)
(* and enabled widgets are their defaults.                                 *)
C36_CorruptBlobs ==
  LET r == init(Reloaded(State))
  IN  /\ (IsCorrupt("browser_tabs") \/ IsCorrupt("browser_conversations")
            \/ IsCorrupt("browser_ntp")) =>
           r.emitted[Len(r.emitted)].event = "initialized"
      /\ IsCorrupt("browser_tabs") =>
           r.tabs = <<>> /\ r.activeTabId = NULL
      /\ IsCorrupt("browser_conversations") => r.conversations = <<>>
      /\ IsCorrupt("browser_ntp") =>
           /\ AreDefaultFavorites(r.ntp.favorites)
           /\ r.ntp.enabledWidgets = DefaultEnabledWidgets

\* all three blobs are damaged after a session that had tabs and
\* conversations
C36_Witness ==
  /\ IsCorrupt("browser_tabs") /\ IsCorrupt("browser_conversations")
  /\ IsCorrupt("browser_ntp")
  /\ tabs # <<>> /\ conversations # <<>>

-----------------------------------------------------------------------------
(* C35: in every state reached through addTab, removeTab, setActiveTab and *)
(* setTabLoading, the process-wide ui.isLoading flag equals the isLoading  *)
(* flag of the active tab, and is false when no tab is active.             *)
C35_LoadingMirror ==
  ui.isLoading = IF TabExists(activeTabId)
                 THEN tabs[FindIndex(tabs, activeTabId)].isLoading
                 ELSE FALSE

-----------------------------------------------------------------------------
\* the algorithm as the specification words it
SpecifiedNormalizeUrl(input) ==
  LET trimmed == Trim(input)
  IN  IF trimmed = <<>> THEN Str_empty
      ELSE IF MatchesHttpScheme(trimmed) THEN trimmed
      ELSE IF /\ Includes(trimmed, ".")
              /\ \A i \in 1..Len(trimmed) : trimmed[i] \notin Whitespace
      THEN <<"h", "t", "t", "p", "s", ":", "/", "/">> \o trimmed
      ELSE trimmed

(* C37: normalizeUrl agrees with the specified algorithm on every input    *)
(* (blank input gives the empty string; input with an http:// or https://  *)
(* scheme in either case is only trimmed; otherwise input with a dot and   *)
(* no internal whitespace is prefixed with https://; anything else is only *)
(* trimmed), and it is idempotent.                                         *)
C37_NormalizeUrl ==
  /\ normalizeUrl(addressBar.value) = SpecifiedNormalizeUrl(addressBar.value)
  /\ normalizeUrl(normalizeUrl(addressBar.value))
       = normalizeUrl(addressBar.value)

-----------------------------------------------------------------------------
(* C38: a reorder whose dragged id equals its target id, reorderTab(id,    *)
(* id) or reorderFavorite(id, id), leaves the order of the list unchanged. *)
C38_DropOnItself ==
  \A id \in IdInputs :
    /\ reorderTab(State, id, id).tabs = tabs
    /\ reorderFavorite(State, id, id).ntp.favorites = ntp.favorites

-----------------------------------------------------------------------------
(* Keyboard shortcuts *)

\* keydown events for the new-tab and close-tab keys, with Cmd and with Ctrl
KeyEvents ==
  [key : {"t", "w"}, metaKey : BOOLEAN, ctrlKey : BOOLEAN]

\* the shortcut's modifier is down: Cmd on a Mac, Ctrl elsewhere
IsShortcut(e, isMac) == IF isMac THEN e.metaKey ELSE e.ctrlKey

KeyDown ==
  \E e \in KeyEvents, isMac \in BOOLEAN :
    LET r == keydown(State, e, isMac)
    IN  /\ Len(r.tabs) <= MaxTabs /\ r.nextId <= MaxIds + 1
        /\ Apply(r)

\* tabs opened, selected and closed with the mouse and the keyboard
NextShortcuts ==
  \/ AddTab(AddTabOptions, MaxTabs, MaxIds) \/ SetActiveTab \/ KeyDown

SpecShortcuts == Init /\ [][NextShortcuts]_vars

(* C39: with both keydown listeners registered, a single Cmd/Ctrl+T        *)
(* creates exactly one tab, and a single Cmd/Ctrl+W with an active tab     *)
(* removes exactly one tab.                                                *)
C39_OneTabPerShortcut ==
  \A e \in KeyEvents, isMac \in BOOLEAN :
    IsShortcut(e, isMac) =>
      /\ e.key = "t" => Len(keydown(State, e, isMac).tabs) = Len(tabs) + 1
      /\ (e.key = "w" /\ FindIndex(tabs, activeTabId) # NotFound) =>
           Len(keydown(State, e, isMac).tabs) = Len(tabs) - 1

-----------------------------------------------------------------------------
(* Page loads that end *)

\* what is typed into the address input: a host name, or free text that
\* normalizeUrl leaves without a scheme
AddressInputs == {Str_host2, Str_query}

UiTypeInput ==
  \E value \in AddressInputs :
    /\ tabs # <<>>
    /\ Apply(Deliver(setAddressBarValue(State, value)))

\* the webview starts the load that loadURL asked for: the step of
\* WebviewStart on the webview
LoadStarts ==
  /\ webview.load.phase = "requested"
  /\ webview' = [webview EXCEPT !.load.phase = "started"]

\* the webview reports did-stop-loading for the load it started, after a
\* failure too: the step of WebviewStop on the webview
LoadEnds ==
  /\ webview.load.phase \in {"started", "committed", "titled", "failed"}
  /\ webview' = [webview EXCEPT !.load = NoLoad]

\* the browser window with a webview that starts every load asked of it
\* and reports the stop of every load it started
NextLoads ==
  \/ UiNewTab \/ UiSelectTab \/ UiTypeInput \/ UiEnter
  \/ WebviewStart \/ WebviewNavigate \/ WebviewTitle \/ WebviewFail
  \/ WebviewStop

SpecLoadsEnd ==
  /\ Init /\ [][NextLoads]_vars
  /\ WF_webview(LoadStarts) /\ WF_webview(LoadEnds)

\* the tab is loading and still shows the title navigateToUrl gave it
NavigatedLoading(id) ==
  \E i \in 1..Len(tabs) :
    tabs[i].id = id /\ tabs[i].isLoading /\ tabs[i].title = "Loading..."

TabNotLoading(id) ==
  \A i \in 1..Len(tabs) : tabs[i].id = id => ~tabs[i].isLoading

(* C40: provided the webview reports a stop or a failure for every load it *)
(* starts, every tab whose isLoading was set to true by navigateToUrl      *)
(* eventually has isLoading = false, whatever non-empty text was entered.  *)
C40_LoadingEnds ==
  \A id \in 1..(MaxViewTabs + 1) :
    NavigatedLoading(id) ~> TabNotLoading(id)

====
